---- MODULE Spec2Model ----
(***************************************************************************)
(* A model of spoof-d: the MAC codec (normalize and the two regular        *)
(* expressions it is built on), the apply-and-verify engine of             *)
(* setInterfaceMAC on each platform, and the DUID command-line handlers    *)
(* with the original-DUID store.                                           *)
(*                                                                         *)
(* A JavaScript string is a sequence of one-character strings; null is     *)
(* the empty sequence where the code only ever yields null or a non-empty  *)
(* string.                                                                 *)
(***************************************************************************)
EXTENDS Integers, Sequences, FiniteSets, TLC

\* ------------------------------------------------------------------ text

Null == <<>>

DecDigits == {"0", "1", "2", "3", "4", "5", "6", "7", "8", "9"}
HexLower == {"a", "b", "c", "d", "e", "f"}
HexUpper == {"A", "B", "C", "D", "E", "F"}

\* The character class [0-9A-F] under the /i flag.
IsHex(c) == c \in DecDigits \cup HexLower \cup HexUpper

toUpperChar(c) ==
  CASE c = "a" -> "A" [] c = "b" -> "B" [] c = "c" -> "C"
    [] c = "d" -> "D" [] c = "e" -> "E" [] c = "f" -> "F"
    [] c = "z" -> "Z" [] c = "w" -> "W" [] c = "i" -> "I"
    [] c = "l" -> "L" [] c = "t" -> "T" [] c = "n" -> "N" [] c = "u" -> "U"
    [] c = "y" -> "Y" [] c = "s" -> "S"
    [] OTHER -> c

toLowerChar(c) ==
  CASE c = "A" -> "a" [] c = "B" -> "b" [] c = "C" -> "c"
    [] c = "D" -> "d" [] c = "E" -> "e" [] c = "F" -> "f"
    [] c = "Z" -> "z" [] c = "W" -> "w" [] c = "I" -> "i"
    [] c = "L" -> "l" [] c = "T" -> "t" [] c = "N" -> "n" [] c = "U" -> "u"
    [] c = "Y" -> "y" [] c = "S" -> "s"
    [] OTHER -> c

toUpperCase(s) == [i \in 1..Len(s) |-> toUpperChar(s[i])]

toLowerCase(s) == [i \in 1..Len(s) |-> toLowerChar(s[i])]

\* s.slice(p-1, p-1+n): n characters of s from position p (1-based), cut at the end.
Slice(s, p, n) ==
  IF p > Len(s) THEN <<>>
  ELSE SubSeq(s, p, IF p + n - 1 > Len(s) THEN Len(s) ELSE p + n - 1)

RECURSIVE Repeat(_, _)
Repeat(seq, n) == IF n <= 0 THEN <<>> ELSE seq \o Repeat(seq, n - 1)

RECURSIVE Join(_, _)
Join(parts, sep) ==
  IF Len(parts) = 0 THEN <<>>
  ELSE IF Len(parts) = 1 THEN parts[1]
  ELSE parts[1] \o sep \o Join(Tail(parts), sep)

IsSpace(c) == c = " "

RECURSIVE trimStart(_)
trimStart(s) ==
  IF Len(s) > 0 /\ IsSpace(s[1]) THEN trimStart(Tail(s)) ELSE s

RECURSIVE trimEnd(_)
trimEnd(s) ==
  IF Len(s) > 0 /\ IsSpace(s[Len(s)]) THEN trimEnd(SubSeq(s, 1, Len(s) - 1)) ELSE s

trim(s) == trimEnd(trimStart(s))

\* zero-fill: pad on the left with "0" up to width.
RECURSIVE zeroFill(_, _)
zeroFill(width, s) ==
  IF Len(s) >= width THEN s ELSE zeroFill(width, <<"0">> \o s)

RECURSIVE chunk(_, _)
chunk(str, n) ==
  IF Len(str) = 0 THEN <<>>
  ELSE <<Slice(str, 1, n)>> \o chunk(Slice(str, n + 1, Len(str)), n)

\* ------------------------------------------------------- regular expressions

\* The number of characters of [0-9A-F] at position p, counted up to max.
RECURSIVE HexRun(_, _, _)
HexRun(s, p, max) ==
  IF max = 0 \/ p > Len(s) \/ ~IsHex(s[p]) THEN 0
  ELSE 1 + HexRun(s, p + 1, max - 1)

SetMax(S) == CHOOSE x \in S : \A y \in S : y <= x

NoMatch == [ok |-> FALSE, groups |-> <<>>, all |-> <<>>]

\* In what follows a one-element set {e} only gives the value of e a name
\* (x \in {e}), so that it is computed once.

\* CISCO_MAC_ADDRESS_RE anchored at position s: each group is greedy and gives
\* characters back until the dot that must follow it is found.
CiscoAt(str, s) ==
  LET dotAt(p) == p <= Len(str) /\ str[p] = "."
      second(p) == {m \in 0..HexRun(str, p, 4) : dotAt(p + m)}
  IN CHOOSE r \in
       { IF first = {} THEN NoMatch
         ELSE CHOOSE r1 \in
           { [ok |-> TRUE,
              groups |-> <<Slice(str, s, n[1]), Slice(str, s + n[1] + 1, n[2]),
                           Slice(str, s + n[1] + n[2] + 2, n[3])>>,
              all |-> Slice(str, s, n[1] + n[2] + n[3] + 2)]
             : n \in { CHOOSE t \in
                         { <<n1, n2, HexRun(str, s + n1 + n2 + 2, 4)>>
                           : n2 \in {SetMax(second(s + n1 + 1))} } : TRUE
                       : n1 \in {SetMax(first)} } } : TRUE
         : first \in { {n \in 0..HexRun(str, s, 4) :
                          dotAt(s + n) /\ second(s + n + 1) # {}} } } : TRUE

RECURSIVE CiscoExecFrom(_, _)
\* RegExp.prototype.exec without the sticky flag: the match at the leftmost position.
CiscoExecFrom(str, s) ==
  IF s > Len(str) + 1 THEN NoMatch
  ELSE CHOOSE r \in {IF m.ok THEN m ELSE CiscoExecFrom(str, s + 1) : m \in {CiscoAt(str, s)}} : TRUE

CISCO_MAC_ADDRESS_RE(str) == CHOOSE r \in {CiscoExecFrom(v, 1) : v \in {str}} : TRUE

\* A group in front of the match r of the groups after it.
Cons(g, r) == [ok |-> TRUE, groups |-> <<g>> \o r.groups, end |-> r.end]

RECURSIVE MacGroups(_, _, _)
\* Groups k..6 of MAC_ADDRESS_RE from position p: [ok, groups, end]. A group takes
\* two characters before it tries one, and [:-]? takes the separator before it
\* tries to go without.
MacGroups(str, p, k) ==
  LET Fail == [ok |-> FALSE, groups |-> <<>>, end |-> p]
      sepAt(q) == q <= Len(str) /\ str[q] \in {":", "-"}
      try(n) ==
        IF HexRun(str, p, 2) < n THEN Fail
        ELSE IF k = 6 THEN [ok |-> TRUE, groups |-> <<Slice(str, p, n)>>, end |-> p + n]
        ELSE CHOOSE r \in
          { IF withSep.ok THEN Cons(Slice(str, p, n), withSep)
            ELSE CHOOSE r2 \in
              { IF without.ok THEN Cons(Slice(str, p, n), without) ELSE Fail
                : without \in {MacGroups(str, p + n, k + 1)} } : TRUE
            : withSep \in {IF sepAt(p + n) THEN MacGroups(str, p + n + 1, k + 1) ELSE Fail} } : TRUE
  IN CHOOSE r \in {IF two.ok THEN two ELSE try(1) : two \in {try(2)}} : TRUE

MacAt(str, s) ==
  CHOOSE m \in
    { IF r.ok THEN [ok |-> TRUE, groups |-> r.groups, all |-> Slice(str, s, r.end - s)]
      ELSE NoMatch
      : r \in {MacGroups(str, s, 1)} } : TRUE

RECURSIVE MacExecFrom(_, _)
MacExecFrom(str, s) ==
  IF s > Len(str) + 1 THEN NoMatch
  ELSE CHOOSE r \in {IF m.ok THEN m ELSE MacExecFrom(str, s + 1) : m \in {MacAt(str, s)}} : TRUE

MAC_ADDRESS_RE(str) == CHOOSE r \in {MacExecFrom(v, 1) : v \in {str}} : TRUE

\* ------------------------------------------------------------ MAC codec

\* A JavaScript value handed in as a MAC or a device name.
JsString(s) == [type |-> "string", val |-> s]
JsUndefined == [type |-> "undefined", val |-> <<>>]
JsNumber == [type |-> "number", val |-> <<"4", "2">>]
JsTypes == {"string", "undefined", "number"}

\* !x || typeof x !== "string"
NotNonEmptyString(x) == x.type # "string" \/ Len(x.val) = 0

\* normalize that leaves the letters of its result as they were written.
normalizedFrom_noUpperCase(mac, c, m) ==
  IF Len(mac) = 0 THEN Null
  ELSE IF c.ok /\ \A i \in 1..3 : Len(c.groups[i]) > 0
  THEN Join(chunk(Join([i \in 1..3 |-> zeroFill(4, c.groups[i])], <<>>), 2), <<":">>)
  ELSE IF m.ok
  THEN Join([i \in 1..6 |-> zeroFill(2, m.groups[i])], <<":">>)
  ELSE Null

\* normalize that does not pad the groups of the Cisco form.
normalizedFrom_noPadding(mac, c, m) ==
  IF Len(mac) = 0 THEN Null
  ELSE IF c.ok /\ \A i \in 1..3 : Len(c.groups[i]) > 0
  THEN toUpperCase(Join(chunk(Join([i \in 1..3 |-> c.groups[i]], <<>>), 2), <<":">>))
  ELSE IF m.ok
  THEN toUpperCase(Join([i \in 1..6 |-> zeroFill(2, m.groups[i])], <<":">>))
  ELSE Null

\* normalize on a string: the Cisco form is tried first, then the standard form.
normalizedFrom(mac, c, m) ==
  IF Len(mac) = 0 THEN Null
  ELSE IF c.ok /\ \A i \in 1..3 : Len(c.groups[i]) > 0
  THEN toUpperCase(Join(chunk(Join([i \in 1..3 |-> zeroFill(4, c.groups[i])], <<>>), 2), <<":">>))
  ELSE IF m.ok
  THEN toUpperCase(Join([i \in 1..6 |-> zeroFill(2, m.groups[i])], <<":">>))
  ELSE Null

normalizeString(input) ==
  CHOOSE r \in
    { normalizedFrom(t[1], t[2], t[3])
      : t \in { <<mac, CISCO_MAC_ADDRESS_RE(mac), MAC_ADDRESS_RE(mac)>> : mac \in {trim(input)} } } : TRUE

normalize(mac) ==
  IF NotNonEmptyString(mac) THEN Null ELSE normalizeString(mac.val)


\* validateMAC / setInterfaceMAC reject these two normalized addresses.
ZeroMac == <<"0","0",":","0","0",":","0","0",":","0","0",":","0","0",":","0","0">>
BroadcastMac == <<"F","F",":","F","F",":","F","F",":","F","F",":","F","F",":","F","F">>

\* ------------------------------------------------------------ error classes

\* An error object: its class name, the code the SpoofyError constructor stores,
\* the number of suggestions, and what its message is built from (msg names the
\* template; expected and actual are the values the template embeds).
SpoofyError(name, code, msg, nsuggestions, expected, actual) ==
  [status |-> "error", name |-> name, code |-> code, msg |-> msg,
   suggestions |-> nsuggestions, expected |-> expected, actual |-> actual]

ValidationError(msg, nsuggestions, shown) ==
  SpoofyError("ValidationError", "VALIDATION_ERROR", msg, nsuggestions, shown, Null)

NetworkError(msg, nsuggestions, expected, actual) ==
  SpoofyError("NetworkError", "NETWORK_ERROR", msg, nsuggestions, expected, actual)

Returned == [status |-> "ok", name |-> "", code |-> "", msg |-> "",
             suggestions |-> 0, expected |-> Null, actual |-> Null]

NoResult == [status |-> "none", name |-> "", code |-> "", msg |-> "",
             suggestions |-> 0, expected |-> Null, actual |-> Null]

\* The fields of s between the separators in seps.
RECURSIVE Fields(_, _)
Fields(s, seps) ==
  LET at == {i \in 1..Len(s) : s[i] \in seps}
  IN IF at = {} THEN <<s>>
     ELSE LET i == CHOOSE j \in at : \A k \in at : j <= k
          IN <<SubSeq(s, 1, i - 1)>> \o Fields(SubSeq(s, i + 1, Len(s)), seps)

AllHex(s) == \A i \in 1..Len(s) : IsHex(s[i])

HexFields(s, seps, count, width) ==
  LET f == Fields(s, seps)
  IN Len(f) = count /\ \A i \in 1..count : Len(f[i]) \in 1..width /\ AllHex(f[i])

\* ------------------------------------------------------------ the backend

\* execWithTimeout's default and the timeout of the re-enable attempts (ms);
\* 0 stands for a command started with no timeout option.
ExecTimeout == 30000
ReenableTimeout == 10000
NoTimeout == 0

Platforms == {"darwin", "linux", "win32", "freebsd"}

\* The address the adapter starts with.
HwMac == <<"0","8",":","0","0",":","2","7",":","4","E",":","6","6",":","A","1">>

\* What a started command does: it ends well, it ends with an error, or it does
\* not end by itself.
Outcomes == {"ok", "err", "hang"}

\* A command that does not end is killed (SIGTERM) when it was given a timeout,
\* and is waited for otherwise.
Ending(outcome, timeout) ==
  IF outcome # "hang" THEN outcome
  ELSE IF timeout > 0 THEN "timeout" ELSE "hung"

Cmd(name, role, timeout) == [name |-> name, role |-> role, timeout |-> timeout]

\* ifconfig prints the address in lower case after "ether"; Get-NetAdapter and
\* ipconfig print it in upper case with dashes.
IfconfigOutput(addr) == <<"e","t","h","e","r"," ">> \o toLowerCase(addr) \o <<" ">>

DashOutput(addr) == [i \in 1..Len(addr) |-> IF addr[i] = ":" THEN "-" ELSE addr[i]]


\* How the first and the second command of a read may end ("empty": it ends
\* well and prints nothing).
ReadOutcomes == {"ok", "empty", "err", "hang"}

\* The commands getInterfaceMAC starts: none of them is given a timeout.
ReadCmds(plat, first, second) ==
  IF plat \in {"darwin", "linux"} THEN <<Cmd("ifconfig", "read", NoTimeout)>>
  ELSE IF plat = "win32"
  THEN IF first = "err"
       THEN <<Cmd("Get-NetAdapter MacAddress", "read", NoTimeout),
              Cmd("ipconfig /all", "read", NoTimeout)>>
       ELSE <<Cmd("Get-NetAdapter MacAddress", "read", NoTimeout)>>
  ELSE <<>>

ReadHangs(plat, first, second) ==
  /\ plat \in {"darwin", "linux", "win32"}
  /\ \/ first = "hang"
     \/ plat = "win32" /\ first = "err" /\ second = "hang"

\* getInterfaceMAC(device) on an adapter whose address is addr, given how its
\* commands end. It catches every error of its commands and never throws.
getInterfaceMAC(plat, addr, first, second) ==
  IF plat \in {"darwin", "linux"}
  THEN IF first = "err" THEN Null
       ELSE LET address == MAC_ADDRESS_RE(IF first = "empty" THEN <<>> ELSE IfconfigOutput(addr))
            IN IF address.ok THEN normalize(JsString(address.all)) ELSE Null
  ELSE IF plat = "win32"
  THEN IF first = "ok" THEN normalize(JsString(trim(DashOutput(addr))))
       ELSE IF first = "empty" THEN Null
       ELSE IF second = "ok" THEN normalize(JsString(DashOutput(addr)))
       ELSE Null
  ELSE Null

\* ------------------------------------------------------------ state

VARIABLES
  platform,        \* process.platform
  ifaceMac,        \* the adapter's current address (canonical form)
  ifaceUp,         \* whether the adapter is up / enabled
  pc,              \* where the running setInterfaceMAC call stands
  argMac,          \* the mac argument as handed in
  argDevice,       \* the device argument as handed in
  argPort,         \* the port argument
  argNm,           \* the nmOptions argument (Null: null)
  mac,             \* the local mac after "mac = normalizedMac"
  macChangeError,  \* "" for null, else which command's error it holds
  newMac,          \* what the verification read gave (Null: null, or not read yet)
  cmds,            \* the backend commands the call has started, in order
  result,          \* what the call gave its caller
  duidCurrent,     \* the DUID the system holds (Null: none)
  duidOriginal,    \* the stored original DUID (Null: none stored)
  duidPc,          \* where the running duid command stands
  duidCall,        \* the running (or last) duid command: op, iface, the DUID it applies, oldDuidStr
  duidWrites,      \* backend DUID writes and deletions of the running (or last) duid command
  duidOut,         \* how the last duid command ended
  history,         \* the history file's entries, newest first
  calls,           \* duid commands run so far
  firstBefore,     \* the DUID held before the first set/randomize/sync since the store was empty
  codecIn,         \* the argument (or the random draws) a codec function is called with
  codecOut,        \* what the codec function gave
  cliPc,           \* where the running spoofy command stands
  cliCall,         \* the running (or last) spoofy command and what setMACAddress holds
  cliOut,          \* how the last spoofy command ended
  cliSaved,        \* what saveHistory returned to the last addHistoryEntry
  argv,            \* process.argv.slice(2) of the running or last "spoofy duid" process (Null: none)
  added,           \* calls of addHistoryEntry and addDUIDHistoryEntry made so far
  procs            \* spoofy processes running side by side: where each stands, what it read

macVars == <<platform, ifaceMac, ifaceUp, pc, argMac, argDevice, argPort, argNm, mac,
             macChangeError, newMac, cmds, result>>

duidVars == <<duidCurrent, duidOriginal, duidPc, duidCall, duidWrites, duidOut,
              history, calls, firstBefore>>

codecVars == <<codecIn, codecOut>>

cliVars == <<cliPc, cliCall, cliOut, cliSaved>>

fileVars == <<added, procs>>

\* What the steps of setInterfaceMAC, and what the duid commands, leave alone.
otherThanMac == <<duidVars, codecVars, cliVars, argv, fileVars>>
otherThanDuid == <<macVars, codecVars, cliVars, fileVars>>

vars == <<macVars, duidVars, codecVars, cliVars, argv, fileVars>>


\* ------------------------------------------------------------ setInterfaceMAC

\* The checks setInterfaceMAC makes before it touches the adapter, in their
\* order: the error thrown, or NoResult when the arguments pass.
\* normalizedMac is normalize(m), computed once as in the source.
validateArguments(device, m, normalizedMac) ==
  IF NotNonEmptyString(m) THEN ValidationError("MAC address must be a non-empty string", 0, Null)
  ELSE IF normalizedMac = Null THEN ValidationError("is not a valid MAC address", 3, m.val)
  ELSE IF normalizedMac = ZeroMac \/ normalizedMac = BroadcastMac
  THEN ValidationError("cannot be all zeros or broadcast address", 1, normalizedMac)
  ELSE IF NotNonEmptyString(device) \/ Len(trim(device.val)) = 0
  THEN ValidationError("Device name must be a non-empty string", 1, Null)
  ELSE NoResult

\* port && port.toLowerCase() === "wi-fi"
isWirelessPort(port) == Len(port) > 0 /\ toLowerCase(port) = <<"w","i","-","f","i">>

SameMac(a, b) == toLowerCase(a) = toLowerCase(b)

\* Variants of the two decisions, each with one line of the source changed.

\* "if (macChangeError) throw": the recorded error is fatal whatever the read gave.
verifyAfterError_throwsAlways(plat, got, m, permission) ==
  NetworkError("Unable to change MAC address",
               IF plat = "darwin" THEN 4
               ELSE IF plat = "linux" THEN 3
               ELSE IF permission THEN 5 ELSE 4,
               Null, Null)

\* A mismatch after a recorded error rethrows the raw command error: a plain
\* Error, without code and without suggestions.
verifyAfterError_rethrowsRaw(plat, got, m, permission) ==
  IF got # Null /\ SameMac(got, m) THEN Returned
  ELSE SpoofyError("Error", "", "Command failed", 0, Null, Null)

\* The message is built with the two addresses in each other's place.
verifyChange_swapped(plat, got, m) ==
  IF got # Null /\ ~SameMac(got, m)
  THEN NetworkError("MAC address change verification failed",
                    IF plat = "win32" THEN 4 ELSE 3, got, m)
  ELSE Returned

\* "if (macChangeError)": the read decides between return and the throw.
\* permission: the recorded error's message includes "Permission" (win32 adds
\* one suggestion then).
verifyAfterError(plat, got, m, permission) ==
  IF got # Null /\ SameMac(got, m) THEN Returned
  ELSE NetworkError("Unable to change MAC address",
                    IF plat = "darwin" THEN 4
                    ELSE IF plat = "linux" THEN 3
                    ELSE IF permission THEN 5 ELSE 4,
                    Null, Null)

\* "Verify the change took effect": with no recorded error, only a read that
\* gave an address other than mac throws.
verifyChange(plat, got, m) ==
  IF got # Null /\ ~SameMac(got, m)
  THEN NetworkError("MAC address change verification failed",
                    IF plat = "win32" THEN 4 ELSE 3, m, got)
  ELSE Returned

\* The entry of the call: validation, "mac = normalizedMac", and the platform
\* branch. On a platform that is none of the three the function ends here.
setInterfaceMAC(device, m, port, nmOptions) ==
  /\ pc \in {"idle", "done"}
  /\ argMac' = m /\ argDevice' = device /\ argPort' = port /\ argNm' = nmOptions
  /\ cmds' = <<>> /\ macChangeError' = "" /\ newMac' = Null
  /\ \E normalizedMac \in {normalize(m)} :
       \E v \in {validateArguments(device, m, normalizedMac)} :
         IF v.status = "error"
         THEN pc' = "done" /\ result' = v /\ mac' = Null
         ELSE /\ mac' = normalizedMac
              /\ IF platform = "darwin"
                 THEN pc' = (IF isWirelessPort(port) THEN "airport_off" ELSE "down") /\ result' = NoResult
                 ELSE IF platform = "linux" THEN pc' = "down" /\ result' = NoResult
                 ELSE IF platform = "win32" THEN pc' = "set_netadapter" /\ result' = NoResult
                 ELSE pc' = "done" /\ result' = Returned
  /\ UNCHANGED <<platform, ifaceMac, ifaceUp>>

\* The frame of a step of the running call.
StepFrame == UNCHANGED <<platform, argMac, argDevice, argPort, argNm, mac, otherThanMac>>

\* A step that is not the verification read leaves newMac as it is.
WriteFrame == StepFrame /\ UNCHANGED newMac

\* A failed "down" goes straight to the verification, leaving out "up".
StepDown_skipsUp(name, o) ==
  /\ pc = "down"
  /\ cmds' = Append(cmds, Cmd(name, "write", NoTimeout))
  /\ CASE o = "ok" -> pc' = "addr" /\ ifaceUp' = FALSE /\ UNCHANGED macChangeError
       [] o = "err" -> pc' = "verify" /\ macChangeError' = "Unable to bring interface down" /\ UNCHANGED ifaceUp
       [] OTHER -> pc' = "hung" /\ UNCHANGED <<ifaceUp, macChangeError>>
  /\ UNCHANGED <<ifaceMac, result>>
  /\ WriteFrame

\* Interface down (ip link set <device> down / ifconfig <device> down).
StepDown(name, o) ==
  /\ pc = "down"
  /\ cmds' = Append(cmds, Cmd(name, "write", NoTimeout))
  /\ CASE o = "ok" -> pc' = "addr" /\ ifaceUp' = FALSE /\ UNCHANGED macChangeError
       [] o = "err" -> pc' = "up" /\ macChangeError' = "Unable to bring interface down" /\ UNCHANGED ifaceUp
       [] OTHER -> pc' = "hung" /\ UNCHANGED <<ifaceUp, macChangeError>>
  /\ UNCHANGED <<ifaceMac, result>>
  /\ WriteFrame

\* Set the address; it runs only "if (!macChangeError)". applied: whether the
\* adapter took the address, whatever the command reported.
StepAddress(name, o, applied) ==
  /\ pc = "addr"
  /\ cmds' = Append(cmds, Cmd(name, "write", NoTimeout))
  /\ ifaceMac' = (IF applied THEN mac ELSE ifaceMac)
  /\ CASE o = "ok" -> pc' = "up" /\ UNCHANGED macChangeError
       [] o = "err" -> pc' = "up" /\ macChangeError' = "err.message"
       [] OTHER -> pc' = "hung" /\ UNCHANGED macChangeError
  /\ UNCHANGED <<ifaceUp, result>>
  /\ WriteFrame

\* Interface up: always attempted; its error is recorded only when none is yet.
StepUp(name, o) ==
  /\ pc = "up"
  /\ cmds' = Append(cmds, Cmd(name, "write", NoTimeout))
  /\ CASE o = "ok" -> pc' = "verify" /\ ifaceUp' = TRUE /\ UNCHANGED macChangeError
       [] o = "err" -> /\ pc' = "verify"
                       /\ macChangeError' = (IF macChangeError = "" THEN "Unable to bring interface up"
                                             ELSE macChangeError)
                       /\ UNCHANGED ifaceUp
       [] OTHER -> pc' = "hung" /\ UNCHANGED <<ifaceUp, macChangeError>>
  /\ UNCHANGED <<ifaceMac, result>>
  /\ WriteFrame

\* "if (nmOptions && nmOptions.reconnect)": the statement stands in the linux
\* branch after the verification, and is reached only when nothing returned
\* or threw before it.
reconnectsNM(plat, error, verified, nmOptions) ==
  /\ plat = "linux" /\ error = "" /\ verified = Returned
  /\ nmOptions # Null /\ nmOptions.reconnect

\* The read after the writes and what the function does with it. reads: how
\* many times getInterfaceMAC is called before its value is used.
StepVerify(first, second, permission, reads) ==
  /\ pc = "verify"
  /\ cmds' = cmds \o Repeat(ReadCmds(platform, first, second), reads)
  /\ IF ReadHangs(platform, first, second)
     THEN pc' = "hung" /\ UNCHANGED <<result, newMac>>
     ELSE \E read \in {getInterfaceMAC(platform, ifaceMac, first, second)} :
            /\ newMac' = read
            /\ \E r \in {IF macChangeError # ""
                          THEN verifyAfterError(platform, read, mac, permission)
                          ELSE verifyChange(platform, read, mac)} :
                 IF reconnectsNM(platform, macChangeError, r, argNm)
                 THEN pc' = "nm_reconnect" /\ result' = NoResult
                 ELSE pc' = "done" /\ result' = r
  /\ UNCHANGED <<ifaceMac, ifaceUp, macChangeError>>
  /\ StepFrame

LinuxDown == platform = "linux" /\ \E o \in Outcomes : StepDown("ip link set down", o)

LinuxAddress ==
  platform = "linux" /\ \E o \in Outcomes, applied \in BOOLEAN : StepAddress("ip link set address", o, applied)

LinuxUp == platform = "linux" /\ \E o \in Outcomes : StepUp("ip link set up", o)

LinuxVerify == platform = "linux" /\ \E first \in ReadOutcomes : StepVerify(first, "ok", FALSE, 1)

\* nm.reconnectNMDevice and nm.toggleNMNetworking give their nmcli command
\* this timeout (ms).
NmTimeout == 20000

\* isNetworkManagerPresent asks "nmcli -t -f RUNNING general" with this timeout (ms).
NmCheckTimeout == 5000

\* A step of the NetworkManager reconnection. checks: how often the helpers
\* of the step call isNetworkManagerPresent; running: it says present and
\* running (else the helper throws before its command). Every error is caught
\* by the catch around the reconnection, which only warns: the function then
\* returns normally.
StepNM(at, name, next, checks, running, o) ==
  /\ platform = "linux" /\ pc = at
  /\ cmds' = cmds \o Repeat(<<Cmd("nmcli general", "nm-check", NmCheckTimeout)>>,
                             IF running THEN checks ELSE 1)
                  \o (IF running THEN <<Cmd(name, "nm", NmTimeout)>> ELSE <<>>)
  /\ IF running /\ Ending(o, NmTimeout) = "ok" /\ next # "done"
     THEN pc' = next /\ UNCHANGED result
     ELSE pc' = "done" /\ result' = Returned
  /\ UNCHANGED <<ifaceMac, ifaceUp, macChangeError>>
  /\ WriteFrame

\* reconnectNMDevice: disconnectNMDevice first ...
LinuxNMDisconnect ==
  /\ pc = "nm_reconnect" /\ ~argNm.force
  /\ \E running \in BOOLEAN, o \in Outcomes :
       StepNM("nm_reconnect", "nmcli device disconnect", "nm_connect", 2, running, o)

\* ... then nmcli device connect.
LinuxNMConnect ==
  \E o \in Outcomes : StepNM("nm_connect", "nmcli device connect", "done", 0, TRUE, o)

\* nmOptions.force: toggleNMNetworking(false) ...
LinuxNMNetworkingOff ==
  /\ pc = "nm_reconnect" /\ argNm.force
  /\ \E running \in BOOLEAN, o \in Outcomes :
       StepNM("nm_reconnect", "nmcli networking off", "nm_on", 1, running, o)

\* ... then toggleNMNetworking(true).
LinuxNMNetworkingOn ==
  \E running \in BOOLEAN, o \in Outcomes :
    StepNM("nm_on", "nmcli networking on", "done", 1, running, o)

DarwinDown == platform = "darwin" /\ \E o \in Outcomes : StepDown("ifconfig down", o)

DarwinEther ==
  platform = "darwin" /\ \E o \in Outcomes, applied \in BOOLEAN : StepAddress("ifconfig ether", o, applied)

DarwinUp == platform = "darwin" /\ \E o \in Outcomes : StepUp("ifconfig up", o)

DarwinVerify == platform = "darwin" /\ \E first \in ReadOutcomes : StepVerify(first, "ok", FALSE, 1)


\* darwin, Wi-Fi port: power off, power on and the address change share one
\* try block, so the first error skips what is left of it.
StepAirport(at, name, next, o, up) ==
  /\ platform = "darwin" /\ pc = at
  /\ cmds' = Append(cmds, Cmd(name, "write", NoTimeout))
  /\ CASE o = "ok" -> pc' = next /\ ifaceUp' = up /\ UNCHANGED macChangeError
       [] o = "err" -> pc' = "detect" /\ macChangeError' = "err.message" /\ UNCHANGED ifaceUp
       [] OTHER -> pc' = "hung" /\ UNCHANGED <<ifaceUp, macChangeError>>
  /\ UNCHANGED <<ifaceMac, result>>
  /\ WriteFrame

DarwinAirportOff ==
  \E o \in Outcomes : StepAirport("airport_off", "networksetup -setairportpower off", "airport_on", o, FALSE)

DarwinAirportOn ==
  \E o \in Outcomes : StepAirport("airport_on", "networksetup -setairportpower on", "wifi_ether", o, TRUE)

DarwinWifiEther ==
  /\ platform = "darwin" /\ pc = "wifi_ether"
  /\ \E o \in Outcomes, applied \in BOOLEAN :
       /\ cmds' = Append(cmds, Cmd("ifconfig ether", "write", NoTimeout))
       /\ ifaceMac' = (IF applied THEN mac ELSE ifaceMac)
       /\ CASE o = "ok" -> pc' = "detect" /\ UNCHANGED macChangeError
            [] o = "err" -> pc' = "detect" /\ macChangeError' = "err.message"
            [] OTHER -> pc' = "hung" /\ UNCHANGED macChangeError
  /\ UNCHANGED <<ifaceUp, result>>
  /\ WriteFrame

\* networksetup -detectnewhardware: its error is ignored.
DarwinDetect ==
  /\ platform = "darwin" /\ pc = "detect"
  /\ \E o \in Outcomes :
       /\ cmds' = Append(cmds, Cmd("networksetup -detectnewhardware", "other", NoTimeout))
       /\ pc' = (IF o = "hang" THEN "hung" ELSE "verify")
  /\ UNCHANGED <<ifaceMac, ifaceUp, macChangeError, result>>
  /\ WriteFrame

\* win32, method 1: Set-NetAdapter -MacAddress. Any error of it, a timeout
\* included, starts the registry method.
WinSetNetAdapter ==
  /\ platform = "win32" /\ pc = "set_netadapter"
  /\ \E o \in Outcomes, applied \in BOOLEAN :
       /\ cmds' = Append(cmds, Cmd("Set-NetAdapter -MacAddress", "write", ExecTimeout))
       /\ ifaceMac' = (IF applied THEN mac ELSE ifaceMac)
       /\ pc' = (IF Ending(o, ExecTimeout) = "ok" THEN "verify" ELSE "get_guid")
  /\ UNCHANGED <<ifaceUp, macChangeError, result>>
  /\ WriteFrame

\* The commands of the registry method that only look something up.
Lookups == {"Get-NetAdapter InterfaceGuid", "Get-ChildItem registry path"}

\* A step of the registry method: a NetworkError thrown in it is caught by the
\* outer catch and becomes macChangeError. empty: the command printed nothing
\* (or "error").
WinStep(at, name, next, failure, afterFailure, o, empty) ==
  /\ platform = "win32" /\ pc = at
  /\ cmds' = Append(cmds, Cmd(name, IF name \in Lookups THEN "other" ELSE "write",
                             ExecTimeout))
  /\ IF Ending(o, ExecTimeout) = "ok" /\ ~empty
     THEN pc' = next /\ UNCHANGED macChangeError
     ELSE pc' = afterFailure /\ macChangeError' = failure
  /\ UNCHANGED <<ifaceMac, result>>
  /\ WriteFrame

WinGetGuid ==
  \E o \in Outcomes, empty \in BOOLEAN :
    /\ WinStep("get_guid", "Get-NetAdapter InterfaceGuid", "disable",
               IF Ending(o, ExecTimeout) = "ok" THEN "Could not find adapter GUID"
               ELSE "Could not find adapter", "verify", o, empty)
    /\ UNCHANGED ifaceUp

WinDisable ==
  \E o \in Outcomes :
    /\ WinStep("disable", "Disable-NetAdapter", "find_path", "Could not disable adapter",
               "verify", o, FALSE)
    /\ ifaceUp' = (IF Ending(o, ExecTimeout) = "ok" THEN FALSE ELSE ifaceUp)

\* The registry path is not found and the error is thrown at once.
WinFindPath_noReenable ==
  \E o \in Outcomes, empty \in BOOLEAN :
    /\ WinStep("find_path", "Get-ChildItem registry path", "set_registry",
               "Could not find adapter registry path", "verify", o, empty)
    /\ UNCHANGED ifaceUp

WinFindPath ==
  \E o \in Outcomes, empty \in BOOLEAN :
    /\ WinStep("find_path", "Get-ChildItem registry path", "set_registry",
               "Could not find adapter registry path", "reenable", o, empty)
    /\ UNCHANGED ifaceUp

WinSetRegistry ==
  \E o \in Outcomes :
    /\ WinStep("set_registry", "Set-ItemProperty NetworkAddress", "enable",
               "Could not set MAC address in registry", "reenable", o, FALSE)
    /\ UNCHANGED ifaceUp

\* "Re-enable adapter before throwing error": its own errors are ignored.
WinReenable ==
  /\ platform = "win32" /\ pc = "reenable"
  /\ \E o \in Outcomes :
       /\ cmds' = Append(cmds, Cmd("Enable-NetAdapter", "write", ReenableTimeout))
       /\ ifaceUp' = (IF Ending(o, ReenableTimeout) = "ok" THEN TRUE ELSE ifaceUp)
  /\ pc' = "verify"
  /\ UNCHANGED <<ifaceMac, macChangeError, result>>
  /\ WriteFrame

\* The last step of the registry method; the adapter takes the registry value
\* (or not) when it comes back.
WinEnable ==
  /\ platform = "win32" /\ pc = "enable"
  /\ \E o \in Outcomes, applied \in BOOLEAN :
       /\ cmds' = Append(cmds, Cmd("Enable-NetAdapter", "write", ExecTimeout))
       /\ ifaceMac' = (IF applied THEN mac ELSE ifaceMac)
       /\ IF Ending(o, ExecTimeout) = "ok"
          THEN ifaceUp' = TRUE /\ UNCHANGED macChangeError
          ELSE macChangeError' = "Could not re-enable adapter" /\ UNCHANGED ifaceUp
  /\ pc' = "verify"
  /\ UNCHANGED result
  /\ WriteFrame

\* retry(fn, maxRetries, delay): which call of fn returns (0: every call threw
\* and the last error is thrown). throws[i]: whether the i-th call of fn throws.
RECURSIVE retry(_, _, _)
retry(throws, i, maxRetries) ==
  IF i >= maxRetries THEN 0
  ELSE IF ~throws[i + 1] THEN i + 1
  ELSE retry(throws, i + 1, maxRetries)

\* The verification read of win32 goes through retry(() => getInterfaceMAC(device), 3, 1000).
VerifyRetries == 3

\* getInterfaceMAC never throws, so the first call of it is the one that returns.
WinVerifyReads == retry([i \in 1..VerifyRetries |-> FALSE], 0, VerifyRetries)

WinVerify ==
  /\ platform = "win32"
  /\ \E first \in ReadOutcomes, second \in Outcomes, permission \in BOOLEAN :
       StepVerify(first, second, permission,
                  IF macChangeError # "" THEN 1 ELSE WinVerifyReads)


\* ------------------------------------------------------------ inputs

Mac_colon == <<"0","0",":","1","1",":","2","2",":","3","3",":","4","4",":","5","5">>
Mac_dash == <<"a","a","-","b","b","-","c","c","-","d","d","-","e","e","-","f","f">>
Mac_zero == <<"0","0","-","0","0","-","0","0","-","0","0","-","0","0","-","0","0">>
Mac_broadcast == <<"f","f",":","f","f",":","f","f",":","f","f",":","f","f",":","f","f">>
Mac_seven == Mac_colon \o <<":","6","6">>
Mac_junk == <<"z","z">>

MacInputs ==
  {JsString(Mac_colon), JsString(Mac_dash), JsString(Mac_zero), JsString(Mac_broadcast),
   JsString(Mac_seven), JsString(Mac_junk), JsString(<<>>), JsString(<<" ">>),
   JsUndefined, JsNumber}

DeviceInputs == {JsString(<<"e","t","h","0">>), JsString(<<>>), JsString(<<" ", " ">>), JsUndefined}

PortInputs == {<<>>, <<"W","i","-","F","i">>}

\* ------------------------------------------------------------ the engine's specification

\* No call of setInterfaceMAC yet.
MacIdle ==
  /\ pc = "idle"
  /\ argMac = JsUndefined /\ argDevice = JsUndefined /\ argPort = <<>> /\ argNm = Null
  /\ mac = Null /\ macChangeError = "" /\ newMac = Null /\ cmds = <<>> /\ result = NoResult

MacInit ==
  /\ platform \in Platforms
  /\ ifaceMac = HwMac /\ ifaceUp = TRUE
  /\ MacIdle

DuidIdle ==
  /\ duidCurrent = Null /\ duidOriginal = Null /\ duidPc = "idle"
  /\ duidCall = <<>> /\ duidWrites = 0 /\ duidOut = "" /\ history = <<>> /\ calls = 0
  /\ firstBefore = Null

\* No codec function under observation.
NoOutput == [op |-> ""]
CodecIdle == codecIn = JsUndefined /\ codecOut = NoOutput

\* No spoofy command under way.
CliIdle ==
  /\ cliPc = "idle" /\ cliCall = <<>> /\ cliOut = "" /\ cliSaved = FALSE
  /\ argv = Null

\* No call on the history file counted, no processes side by side.
FileIdle == added = 0 /\ procs = <<>>

Init == MacInit /\ DuidIdle /\ CodecIdle /\ CliIdle /\ FileIdle

Call ==
  \E device \in DeviceInputs, m \in MacInputs, port \in PortInputs :
    setInterfaceMAC(device, m, port, Null) /\ UNCHANGED otherThanMac

Next ==
  \/ Call
  \/ LinuxDown \/ LinuxAddress \/ LinuxUp \/ LinuxVerify
  \/ DarwinDown \/ DarwinEther \/ DarwinUp \/ DarwinVerify
  \/ DarwinAirportOff \/ DarwinAirportOn \/ DarwinWifiEther \/ DarwinDetect
  \/ WinSetNetAdapter \/ WinGetGuid \/ WinDisable \/ WinFindPath \/ WinSetRegistry
  \/ WinReenable \/ WinEnable \/ WinVerify

Spec == Init /\ [][Next]_vars

\* ------------------------------------------------------------ properties of setInterfaceMAC

\* The call has ended (returned or thrown).
Ended == pc = "done"

\* The arguments passed validation in the running or last call.
Validated == mac # Null

\* The commands of the call that change the adapter, and its calls of
\* getInterfaceMAC (each begins with one of two commands).
WriteCmds == {i \in 1..Len(cmds) : cmds[i].role = "write"}
ReadCalls == {i \in 1..Len(cmds) : cmds[i].name \in {"ifconfig", "Get-NetAdapter MacAddress"}}

\* C1: when a write command failed (its error is recorded) and the read made
\* afterwards equals the desired normalized address, compared without regard
\* to case, the call returns normally, on each of the three platforms.
C1_WriteErrorThenMatchReturns ==
  (Ended /\ macChangeError # "" /\ newMac # Null /\ SameMac(newMac, mac))
    => result = Returned

\* A call that recorded a write error, read the desired address and returned.
C1_Witness ==
  /\ Ended /\ macChangeError # "" /\ WriteCmds # {}
  /\ newMac = mac /\ result = Returned

\* C2: a call whose arguments are valid returns normally only if a read made
\* after the write gave the desired address; a read that gave nothing, or no
\* write at all, ends in an error.
C2_SuccessOnlyIfVerified ==
  (Ended /\ Validated /\ result = Returned)
    => (WriteCmds # {} /\ newMac # Null /\ SameMac(newMac, mac))

\* C3: a call with no write error fails on a mismatch only after the read has
\* been made the fixed maximum number of times.
C3_MismatchFailsOnlyAfterAllAttempts ==
  (Ended /\ macChangeError = "" /\ result.status = "error"
     /\ result.msg = "MAC address change verification failed")
    => Cardinality(ReadCalls) = VerifyRetries

\* C4: with no write error recorded, a read that gave an address other than
\* the desired one ends the call in a NetworkError that carries the expected
\* (normalized) address and the address read.
C4_MismatchIsNetworkError ==
  (Ended /\ Validated /\ macChangeError = "" /\ newMac # Null /\ ~SameMac(newMac, mac))
    => /\ result.status = "error"
       /\ result.name = "NetworkError"
       /\ result.expected = mac /\ result.expected = normalize(argMac)
       /\ result.actual = newMac

\* A call whose writes reported no error and whose read gave the old address.
C4_Witness ==
  /\ Ended /\ macChangeError = "" /\ WriteCmds # {}
  /\ newMac = HwMac /\ mac # HwMac
  /\ result.status = "error" /\ result.expected = mac /\ result.actual = HwMac

\* The classes of the error hierarchy that extend SpoofyError.
SpoofyErrorClasses == {"ValidationError", "PermissionError", "NetworkError", "PlatformError"}

\* C5: a recorded write error followed by a read that does not equal the
\* desired address ends the call in an error of the SpoofyError family, with
\* a code and at least one suggestion; the call never returns normally.
C5_WriteErrorThenMismatchFails ==
  (Ended /\ macChangeError # "" /\ ~(newMac # Null /\ SameMac(newMac, mac)))
    => /\ result.status = "error"
       /\ result.name \in SpoofyErrorClasses
       /\ result.code # ""
       /\ result.suggestions > 0

\* A call that recorded a write error and then read another address.
C5_Witness ==
  /\ Ended /\ macChangeError # "" /\ WriteCmds # {}
  /\ newMac # Null /\ ~SameMac(newMac, mac)
  /\ result.status = "error" /\ result.suggestions > 0

\* The three documented forms of an address, surrounding blanks aside: six
\* groups of one or two hex digits separated by colons or dashes, twelve hex
\* digits, or three dot-separated groups of up to four hex digits.
WellFormedMac(x) ==
  /\ x.type = "string"
  /\ LET t == trim(x.val)
     IN \/ HexFields(t, {":", "-"}, 6, 2)
        \/ Len(t) = 12 /\ AllHex(t)
        \/ HexFields(t, {"."}, 3, 4)

\* The arguments of the running or last call that the call has to reject.
RejectedArguments ==
  \/ ~WellFormedMac(argMac)
  \/ normalize(argMac) \in {ZeroMac, BroadcastMac}
  \/ argDevice.type # "string"
  \/ Len(trim(argDevice.val)) = 0

\* C6: a call with a malformed address, the all-zero or the broadcast address,
\* or a device that is empty or no string ends at once in a ValidationError:
\* no backend command is started and the adapter is as it was.
C6_InvalidArgumentsRejectedAtOnce ==
  (pc # "idle" /\ RejectedArguments)
    => (Ended /\ result.name = "ValidationError" /\ cmds = <<>>)

\* Of the calls C6 speaks of, those whose address normalize itself rejects do
\* end at once in a ValidationError with no command started.
RejectedByNormalizeEndsAtOnce ==
  (pc # "idle" /\ (normalize(argMac) \in {Null, ZeroMac, BroadcastMac}
                     \/ argDevice.type # "string" \/ Len(trim(argDevice.val)) = 0))
    => (Ended /\ result.name = "ValidationError" /\ cmds = <<>>)

\* C7: every backend command of a call, write or read, is started with a
\* timeout, and no call waits for ever on a command.
C7_EveryCommandBoundedByTimeout ==
  /\ pc # "hung"
  /\ \A i \in 1..Len(cmds) : cmds[i].timeout > 0


\* ------------------------------------------------------------ DUID: codec and store (lib/duid.js)

\* How many duid commands a behaviour runs.
MaxCalls == 2

HexDigits == <<"0","1","2","3","4","5","6","7","8","9","a","b","c","d","e","f">>

HexChar(n) == HexDigits[n + 1]

HexValue(c) == CHOOSE n \in 0..15 : HexDigits[n + 1] = toLowerChar(c)

\* formatDUID: the bytes as colon-separated lower-case hex pairs.
formatDUID(d) ==
  Join([i \in 1..Len(d) |-> <<HexChar(d[i] \div 16), HexChar(d[i] % 16)>>], <<":">>)

\* hexToDuid: colon-separated hex byte pairs only; anything else is an error.
hexToDuid(str) ==
  LET f == Fields(str, {":"})
  IN IF \A i \in 1..Len(f) : Len(f[i]) = 2 /\ AllHex(f[i])
     THEN [ok |-> TRUE, duid |-> [i \in 1..Len(f) |-> 16 * HexValue(f[i][1]) + HexValue(f[i][2])]]
     ELSE [ok |-> FALSE, duid |-> Null]

DUID_LLT == 1
DUID_EN == 2
DUID_LL == 3
DUID_UUID == 4

\* The bytes of an address in canonical form.
MacBytes(addr) == hexToDuid(addr).duid

\* generateDUID(type, mac): rnd stands for what the clock and the random
\* source give.
generateDUID(type, macBytes, rnd) ==
  IF type = DUID_LLT THEN <<0, 1, 0, 1>> \o Repeat(<<rnd>>, 4) \o macBytes
  ELSE IF type = DUID_EN THEN <<0, 2>> \o Repeat(<<rnd>>, 6)
  ELSE IF type = DUID_UUID THEN <<0, 4>> \o Repeat(<<rnd>>, 16)
  ELSE <<0, 3, 0, 1>> \o macBytes

\* The capture rule with one line changed: every spoof stores the value it
\* is about to replace.
captureOriginal_always(original, current) == current

\* The capture rule of set, randomize and sync: with nothing stored, the
\* current value is persisted as the original; a stored one is left alone.
captureOriginal(original, current) ==
  IF original = Null THEN current ELSE original

\* resetDUID that removes the stored original together with the current value.
resetDUID_clearsStore(current, original) == [current |-> Null, original |-> Null]

\* resetDUID: the current value is deleted, the store is not touched.
resetDUID(current, original) == [current |-> Null, original |-> original]

\* restoreDUID up to its write: 'not_spoofed' when the current value is the
\* stored original, else the original is to be written.
restoreDUID(current, original) ==
  IF current = original THEN "not_spoofed" ELSE "write"

\* ------------------------------------------------------------ DUID: history (lib/history.js)

HistoryLimit == 100

\* history.splice(0, 1) in the place of history.splice(100): the newest goes.
addDUIDHistoryEntry_dropsNewest(entries, device, oldDuid, newDuid, operation, iface, saved) ==
  LET entry == [type |-> "duid",
                device |-> IF device # Null THEN device
                           ELSE IF iface # Null THEN iface ELSE <<"s","y","s","t","e","m">>,
                oldDuid |-> oldDuid, newDuid |-> newDuid,
                operation |-> operation, platform |-> platform]
      all == <<entry>> \o entries
      kept == IF Len(all) > HistoryLimit THEN SubSeq(all, 2, HistoryLimit + 1) ELSE all
  IN IF saved THEN kept ELSE entries

\* addDUIDHistoryEntry on the entries read from the file; saved: whether
\* saveHistory could write the file (it fails silently).
addDUIDHistoryEntry(entries, device, oldDuid, newDuid, operation, iface, saved) ==
  LET entry == [type |-> "duid",
                device |-> IF device # Null THEN device
                           ELSE IF iface # Null THEN iface ELSE <<"s","y","s","t","e","m">>,
                oldDuid |-> oldDuid, newDuid |-> newDuid,
                operation |-> operation, platform |-> platform]
      all == <<entry>> \o entries
      kept == IF Len(all) > HistoryLimit THEN SubSeq(all, 1, HistoryLimit) ELSE all
  IN IF saved THEN kept ELSE entries


\* ------------------------------------------------------------ DUID: the commands (lib/duid-cli.js)

\* --type=<x>: LLT, EN, LL, UUID or 1..4, in any case; DUID_LL when the option
\* is absent or names nothing known.
parseDuidType(typeArg) ==
  IF typeArg = Null THEN DUID_LL
  ELSE LET typeStr == toUpperCase(typeArg)
       IN IF typeStr = <<"L","L","T">> \/ typeStr = <<"1">> THEN DUID_LLT
          ELSE IF typeStr = <<"E","N">> \/ typeStr = <<"2">> THEN DUID_EN
          ELSE IF typeStr = <<"L","L">> \/ typeStr = <<"3">> THEN DUID_LL
          ELSE IF typeStr = <<"U","U","I","D">> \/ typeStr = <<"4">> THEN DUID_UUID
          ELSE DUID_LL

\* oldDuid ? duid.formatDUID(oldDuid) : null
duidStr(d) == IF d # Null THEN formatDUID(d) ELSE Null

DuidCommand(op, iface, value) ==
  [op |-> op, iface |-> iface, value |-> value, oldDuidStr |-> duidStr(duidCurrent)]

\* A command starts: one at a time, MaxCalls of them in a behaviour.
Starts == duidPc = "idle" /\ calls < MaxCalls /\ calls' = calls + 1

\* The command ends (process.exit(1) or a message) having changed nothing.
Exits(op, iface, out) ==
  /\ duidCall' = DuidCommand(op, iface, Null)
  /\ duidPc' = "idle" /\ duidOut' = out /\ duidWrites' = 0
  /\ UNCHANGED <<duidCurrent, duidOriginal, history, firstBefore>>

NoPrivileges == "This command requires root/administrator privileges"

\* setDUID(value, iface, true) up to its write: the capture rule, then the
\* write is next.
Spoofs(op, iface, value) ==
  /\ duidCall' = DuidCommand(op, iface, value)
  /\ duidOriginal' = captureOriginal(duidOriginal, duidCurrent)
  /\ duidPc' = "write" /\ duidOut' = "" /\ duidWrites' = 0
  /\ UNCHANGED <<duidCurrent, history, firstBefore>>

\* spoofy duid set <duid-hex> [interface]
duid_set(isRoot, hasArg, duidHex, iface) ==
  /\ Starts
  /\ IF ~isRoot THEN Exits("set", iface, NoPrivileges)
     ELSE IF ~hasArg THEN Exits("set", Null, "Usage: spoofy duid set <duid-hex> [interface]")
     ELSE LET duidBuf == hexToDuid(duidHex)
          IN IF ~duidBuf.ok THEN Exits("set", iface, "Failed to set DUID")
             ELSE Spoofs("set", iface, duidBuf.duid)
  /\ UNCHANGED otherThanDuid

\* spoofy duid randomize [interface] [--type=<type>]
duid_randomize(isRoot, iface, typeArg, rnd) ==
  /\ Starts
  /\ IF ~isRoot THEN Exits("randomize", iface, NoPrivileges)
     ELSE Spoofs("randomize", iface,
                 generateDUID(parseDuidType(typeArg), Repeat(<<rnd>>, 6), rnd))
  /\ UNCHANGED otherThanDuid

\* spoofy duid sync <interface> [--type=<type>]; macKnown: whether
\* getCurrentMACAddress gave the interface's address.
duid_sync(isRoot, hasArg, iface, typeArg, macKnown, rnd) ==
  /\ Starts
  /\ IF ~isRoot THEN Exits("sync", iface, NoPrivileges)
     ELSE IF ~hasArg THEN Exits("sync", Null, "Usage: spoofy duid sync <interface> [--type=<type>]")
     ELSE IF ~macKnown THEN Exits("sync", iface, "Failed to sync DUID")
     ELSE Spoofs("sync", iface, generateDUID(parseDuidType(typeArg), MacBytes(ifaceMac), rnd))
  /\ UNCHANGED otherThanDuid

\* What restore makes of restoreDUID's result when 'not_spoofed' is not told
\* apart: the string is truthy and takes the branch of a restore.
restoreOutcome_truthy(res) ==
  IF res # "false" THEN [out |-> "DUID restored to original", logs |-> TRUE]
  ELSE [out |-> "Failed to restore DUID", logs |-> FALSE]

\* What restore makes of restoreDUID's result: the message, and whether a
\* history entry is written.
restoreOutcome(res) ==
  IF res = "not_spoofed"
  THEN [out |-> "DUID is already set to the original value", logs |-> FALSE]
  ELSE IF res # "false" THEN [out |-> "DUID restored to original", logs |-> TRUE]
  ELSE [out |-> "Failed to restore DUID", logs |-> FALSE]

\* spoofy duid restore [interface]
duid_restore(isRoot, iface, saved) ==
  /\ Starts
  /\ IF ~isRoot THEN Exits("restore", iface, NoPrivileges)
     ELSE IF duidOriginal = Null THEN Exits("restore", iface, "No original DUID stored.")
     ELSE IF restoreDUID(duidCurrent, duidOriginal) = "not_spoofed"
     THEN LET o == restoreOutcome("not_spoofed")
          IN /\ duidCall' = DuidCommand("restore", iface, Null)
             /\ duidPc' = "idle" /\ duidOut' = o.out /\ duidWrites' = 0
             /\ history' = (IF o.logs
                            THEN addDUIDHistoryEntry(history, IF iface # Null THEN iface ELSE <<"s","y","s","t","e","m">>,
                                                     duidStr(duidCurrent), duidStr(duidCurrent),
                                                     "restore", iface, saved)
                            ELSE history)
             /\ UNCHANGED <<duidCurrent, duidOriginal, firstBefore>>
     ELSE /\ duidCall' = DuidCommand("restore", iface, duidOriginal)
          /\ duidPc' = "write" /\ duidOut' = "" /\ duidWrites' = 0
          /\ UNCHANGED <<duidCurrent, duidOriginal, history, firstBefore>>
  /\ UNCHANGED otherThanDuid

SpoofOps == {"set", "randomize", "sync"}

\* iface || 'system'
ifaceOrSystem(iface) == IF iface # Null THEN iface ELSE <<"s","y","s","t","e","m">>

\* How the backend write of a value may end: done, done though an error was
\* reported (the read afterwards shows the value), or not done.
WriteOutcomes == {"ok", "spurious", "fail"}

\* The write of the running set, randomize, sync or restore, its verification
\* and what the command does after it.
DuidWrite ==
  /\ duidPc = "write"
  /\ \E o \in WriteOutcomes, saved \in BOOLEAN :
       LET op == duidCall.op
           after == IF o # "fail" THEN duidCall.value ELSE duidCurrent
           done == IF op = "restore"
                   THEN restoreOutcome(IF o # "fail" THEN "true" ELSE "false")
                   ELSE IF o # "fail" THEN [out |-> "DUID changed successfully!", logs |-> TRUE]
                   ELSE [out |-> "Failed to set DUID", logs |-> FALSE]
       IN /\ duidWrites' = duidWrites + 1
          /\ duidCurrent' = after
          /\ firstBefore' = (IF op \in SpoofOps /\ firstBefore = Null THEN duidCurrent ELSE firstBefore)
          /\ duidOut' = done.out
          /\ history' = (IF done.logs
                         THEN addDUIDHistoryEntry(history,
                                IF op = "sync" THEN duidCall.iface ELSE ifaceOrSystem(duidCall.iface),
                                duidCall.oldDuidStr, duidStr(after), op, duidCall.iface, saved)
                         ELSE history)
  /\ duidPc' = "idle"
  /\ UNCHANGED <<duidOriginal, duidCall, calls, otherThanDuid, argv>>

\* spoofy duid reset [interface]; deleted: whether resetDUID could delete the
\* current value (it throws otherwise).
duid_reset(isRoot, iface, deleted, saved) ==
  /\ Starts
  /\ IF ~isRoot THEN Exits("reset", iface, NoPrivileges)
     ELSE IF ~deleted THEN Exits("reset", iface, "Failed to reset DUID")
     ELSE LET after == resetDUID(duidCurrent, duidOriginal)
          IN /\ duidCall' = DuidCommand("reset", iface, Null)
             /\ duidCurrent' = after.current
             /\ duidOriginal' = after.original
             /\ history' = addDUIDHistoryEntry(history, ifaceOrSystem(iface), duidStr(duidCurrent),
                                               Null, "reset", iface, saved)
             /\ duidPc' = "idle" /\ duidOut' = "DUID reset successfully!" /\ duidWrites' = 0
             /\ UNCHANGED firstBefore
  /\ UNCHANGED otherThanDuid

ConfirmForce == "To confirm, run: spoofy duid original clear --force"

\* The messages of "original clear" that come with process.exit(1).
ClearExitsNonZero == {NoPrivileges, ConfirmForce}

\* spoofy duid original clear [--force]
duid_original_clear(isRoot, force) ==
  /\ Starts
  /\ IF ~isRoot THEN Exits("clear", Null, NoPrivileges)
     ELSE IF duidOriginal = Null THEN Exits("clear", Null, "No original DUID stored.")
     ELSE IF ~force THEN Exits("clear", Null, ConfirmForce)
     ELSE /\ duidCall' = DuidCommand("clear", Null, Null)
          /\ duidOriginal' = Null /\ firstBefore' = Null
          /\ duidPc' = "idle" /\ duidOut' = "Original DUID storage cleared." /\ duidWrites' = 0
          /\ UNCHANGED <<duidCurrent, history>>
  /\ UNCHANGED otherThanDuid

\* ------------------------------------------------------------ DUID: inputs and specification

\* The DUID the system holds before any spoofing, and the one its DHCPv6
\* client makes when it finds none.
SystemDuid == <<0, 3, 0, 1>> \o MacBytes(HwMac)
FreshDuid == <<0, 4>> \o Repeat(<<119>>, 16)
SpoofedDuid == <<0, 3, 0, 1, 170, 187, 204, 221, 238, 255>>

En0 == <<"e","n","0">>
Ifaces == {Null, En0}
DuidHexInputs == {formatDUID(SpoofedDuid), <<"0","0","-","0","3">>}
TypeArgs == {Null, <<"l","l","t">>, <<"4">>}
RandomSources == {17}

\* With no DUID held, the DHCPv6 client generates one on its next request.
SystemGeneratesDuid ==
  /\ duidPc = "idle" /\ duidCurrent = Null
  /\ duidCurrent' = FreshDuid
  /\ UNCHANGED <<duidOriginal, duidPc, duidCall, duidWrites, duidOut, history, calls, firstBefore, otherThanDuid, argv>>

\* Where a behaviour starts: no DUID held yet, the system's own DUID with
\* nothing stored, or a DUID spoofed earlier (its original stored, the
\* history file gone).
DuidStarts ==
  {[current |-> Null, original |-> Null],
   [current |-> SystemDuid, original |-> Null],
   [current |-> SpoofedDuid, original |-> SystemDuid]}

DuidInit ==
  /\ MacInit /\ platform = "linux" /\ CodecIdle /\ CliIdle /\ FileIdle
  /\ \E start \in DuidStarts :
       /\ duidCurrent = start.current
       /\ duidOriginal = start.original
       /\ firstBefore = start.original
  /\ duidPc = "idle"
  /\ duidCall = [op |-> "", iface |-> Null, value |-> Null, oldDuidStr |-> Null]
  /\ duidWrites = 0 /\ duidOut = "" /\ history = <<>> /\ calls = 0

DuidSet == \E isRoot, hasArg \in BOOLEAN, duidHex \in DuidHexInputs, iface \in Ifaces :
             duid_set(isRoot, hasArg, duidHex, iface) /\ argv' = Null

DuidRandomize == \E isRoot \in BOOLEAN, iface \in Ifaces, typeArg \in TypeArgs, rnd \in RandomSources :
                   duid_randomize(isRoot, iface, typeArg, rnd) /\ argv' = Null

DuidSync == \E isRoot, hasArg, macKnown \in BOOLEAN, typeArg \in TypeArgs, rnd \in RandomSources :
              duid_sync(isRoot, hasArg, En0, typeArg, macKnown, rnd) /\ argv' = Null

DuidRestore == \E isRoot, saved \in BOOLEAN, iface \in Ifaces :
                 duid_restore(isRoot, iface, saved) /\ argv' = Null

DuidReset == \E isRoot, deleted, saved \in BOOLEAN, iface \in Ifaces :
               duid_reset(isRoot, iface, deleted, saved) /\ argv' = Null

DuidOriginalClear == \E isRoot, force \in BOOLEAN : duid_original_clear(isRoot, force) /\ argv' = Null

\* ---- spoofy duid ...: from the command line to duid-cli (bin/cmd.js)

StartsWith(s, prefix) == Len(s) >= Len(prefix) /\ SubSeq(s, 1, Len(prefix)) = prefix

\* The options minimist is told are boolean.
BooleanOptions ==
  {<<"v","e","r","s","i","o","n">>,
   <<"v","e","r","b","o","s","e">>,
   <<"j","s","o","n">>,
   <<"n","m","-","r","e","c","o","n","n","e","c","t">>,
   <<"f","o","r","c","e">>,
   <<"h","e","l","p">>}

\* minimist(args, opts)._ : the arguments that are no options. "--key=value"
\* and "--key value" become argv.key and are taken out; after "--" everything
\* is positional.
RECURSIVE minimist(_)
minimist(args) ==
  IF args = <<>> THEN <<>>
  ELSE LET arg == Head(args)
           rest == Tail(args)
       IN IF arg = <<"-","-">> THEN rest
          ELSE IF StartsWith(arg, <<"-","-">>)
          THEN IF "=" \in {arg[i] : i \in 1..Len(arg)} THEN minimist(rest)
               ELSE IF SubSeq(arg, 3, Len(arg)) \in BooleanOptions \/ rest = <<>>
                       \/ StartsWith(Head(rest), <<"-">>)
               THEN minimist(rest)
               ELSE minimist(Tail(rest))
          ELSE IF StartsWith(arg, <<"-">>) /\ Len(arg) > 1 THEN minimist(rest)
          ELSE <<arg>> \o minimist(rest)

\* args.find(a => a.startsWith('--type=')), then typeArg.split('=')[1];
\* Null when no argument starts so.
typeArgOf(args) ==
  LET hits == {i \in 1..Len(args) : StartsWith(args[i], <<"-","-","t","y","p","e","=">>)}
  IN IF hits = {} THEN Null
     ELSE Fields(args[CHOOSE i \in hits : \A j \in hits : i <= j], {"="})[2]

\* args.includes(x)
includes(args, x) == \E i \in 1..Len(args) : args[i] = x

ForceFlag == <<"-","-","f","o","r","c","e">>

\* init: cmd === "duid" hands argv._.slice(1) to duidCli.run, which takes
\* args[0] as the command and hands it args.slice(1).
spoofy_duid(line, isRoot, macKnown, rnd) ==
  \E positional \in {minimist(line)} :
    /\ Len(positional) >= 2 /\ positional[1] = <<"d","u","i","d">>
    /\ \E commandArgs \in {Tail(Tail(positional))} :
         \E iface \in {IF commandArgs = <<>> THEN Null ELSE commandArgs[1]},
            typeArg \in {typeArgOf(commandArgs)} :
           IF positional[2] = <<"r","a","n","d","o","m","i","z","e">>
           THEN duid_randomize(isRoot, iface, typeArg, rnd)
           ELSE IF positional[2] = <<"s","y","n","c">>
           THEN duid_sync(isRoot, Len(commandArgs) >= 1, iface, typeArg, macKnown, rnd)
           ELSE /\ positional[2] = <<"o","r","i","g","i","n","a","l">>
                /\ commandArgs # <<>> /\ commandArgs[1] = <<"c","l","e","a","r">>
                /\ duid_original_clear(isRoot, includes(commandArgs, ForceFlag))
    /\ argv' = line

CommandLines ==
  {<<<<"d","u","i","d">>, <<"r","a","n","d","o","m","i","z","e">>, <<"e","n","0">>, <<"-","-","t","y","p","e","=","l","l","t">>>>,
   <<<<"d","u","i","d">>, <<"r","a","n","d","o","m","i","z","e">>, <<"e","n","0">>>>,
   <<<<"d","u","i","d">>, <<"s","y","n","c">>, <<"e","n","0">>, <<"-","-","t","y","p","e","=","4">>>>,
   <<<<"d","u","i","d">>, <<"o","r","i","g","i","n","a","l">>, <<"c","l","e","a","r">>, <<"-","-","f","o","r","c","e">>>>,
   <<<<"d","u","i","d">>, <<"o","r","i","g","i","n","a","l">>, <<"c","l","e","a","r">>>>,
   <<<<"d","u","i","d">>, <<"r","a","n","d","o","m","i","z","e">>, <<"e","n","0">>, <<"-","-">>, <<"-","-","t","y","p","e","=","u","u","i","d">>>>}

DuidCommandLine ==
  \E line \in CommandLines, isRoot, macKnown \in BOOLEAN, rnd \in RandomSources :
    spoofy_duid(line, isRoot, macKnown, rnd)

DuidNext ==
  \/ DuidCommandLine
  \/ DuidSet \/ DuidRandomize \/ DuidSync \/ DuidWrite
  \/ DuidRestore \/ DuidReset \/ DuidOriginalClear
  \/ SystemGeneratesDuid

DuidSpec == DuidInit /\ [][DuidNext]_vars

\* ------------------------------------------------------------ properties of the DUID commands

AlreadyOriginal == "DUID is already set to the original value"
Restored == "DUID restored to original"

\* The step is the start of a command op that passed the privilege check.
Runs(op) ==
  duidPc = "idle" /\ calls' = calls + 1 /\ duidCall'.op = op /\ duidOut' # NoPrivileges

C9_RestoreIdempotent ==
  /\ [][(Runs("restore") /\ duidOriginal # Null /\ duidCurrent = duidOriginal)
          => /\ duidOut' = AlreadyOriginal /\ duidPc' = "idle"
             /\ duidWrites' = 0 /\ history' = history
             /\ duidCurrent' = duidCurrent /\ duidOriginal' = duidOriginal]_vars
  /\ []((duidPc = "idle" /\ duidCall.op = "restore" /\ duidOut \in {AlreadyOriginal, Restored})
          => duidCurrent = duidOriginal)

\* A restore that wrote the original, then a second restore that found
\* nothing to do.
C9_Witness ==
  /\ duidPc = "idle" /\ calls = 2 /\ duidCall.op = "restore" /\ duidOut = AlreadyOriginal
  /\ duidWrites = 0
  /\ Len(history) = 1 /\ history[1].operation = "restore"
  /\ duidCurrent = duidOriginal /\ duidOriginal # Null

\* C10: reset leaves the stored original as it was, and a restore after it
\* writes the value that was captured.
C10_ResetKeepsOriginal ==
  /\ [][Runs("reset") => duidOriginal' = duidOriginal]_vars
  /\ []((duidPc = "write" /\ duidCall.op = "restore")
          => (duidCall.value = duidOriginal /\ duidOriginal = firstBefore /\ duidOriginal # Null))

\* A reset of a spoofed DUID, then a restore that brought the original back.
C10_Witness ==
  /\ duidPc = "idle" /\ Len(history) = 2
  /\ history[2].operation = "reset" /\ history[2].oldDuid = formatDUID(SpoofedDuid)
  /\ history[1].operation = "restore" /\ history[1].newDuid = formatDUID(SystemDuid)
  /\ duidOriginal = SystemDuid /\ duidCurrent = SystemDuid


\* ------------------------------------------------------------ the MAC codec: validateMAC, randomize

\* validateMAC that answers the all-zero and the broadcast address with the
\* message of a malformed one.
validateMAC_oneMessage(x) ==
  IF NotNonEmptyString(x)
  THEN [valid |-> FALSE, normalized |-> Null, error |-> "MAC address must be a non-empty string"]
  ELSE LET normalized == CHOOSE r \in {normalize(v) : v \in {x}} : TRUE
       IN IF normalized = Null
          THEN [valid |-> FALSE, normalized |-> Null, error |-> "Invalid MAC address format"]
          ELSE IF normalized = ZeroMac \/ normalized = BroadcastMac
          THEN [valid |-> FALSE, normalized |-> normalized, error |-> "Invalid MAC address format"]
          ELSE [valid |-> TRUE, normalized |-> normalized, error |-> ""]

\* validateMAC(mac): {valid, normalized, error}
validateMAC(x) ==
  IF NotNonEmptyString(x)
  THEN [valid |-> FALSE, normalized |-> Null, error |-> "MAC address must be a non-empty string"]
  ELSE LET normalized == CHOOSE r \in {normalize(v) : v \in {x}} : TRUE
       IN IF normalized = Null
          THEN [valid |-> FALSE, normalized |-> Null, error |-> "Invalid MAC address format"]
          ELSE IF normalized = ZeroMac \/ normalized = BroadcastMac
          THEN [valid |-> FALSE, normalized |-> normalized,
                error |-> "Cannot be all zeros or broadcast address"]
          ELSE [valid |-> TRUE, normalized |-> normalized, error |-> ""]

\* Math.random() gives r / RandomScale, with r in 0..RandomScale-1.
RandomScale == 1000

\* random(min, max) == min + Math.floor(Math.random() * (max - min + 1))
random(min, max, r) == min + ((r * (max - min + 1)) \div RandomScale)

vendors ==
  << <<0, 5, 105>>, <<0, 80, 86>>, <<0, 12, 41>>, <<0, 22, 62>>,
     <<0, 3, 255>>, <<0, 28, 66>>, <<0, 15, 75>>, <<8, 0, 39>> >>

windowsPrefixes == << <<"D","2">>, <<"D","6">>, <<"D","A">>, <<"D","E">> >>

\* parseInt(s, 16) on two hex digits
parseInt16(s) == 16 * HexValue(s[1]) + HexValue(s[2])

\* byte.toString(16)
toString16(n) == IF n < 16 THEN <<HexChar(n)>> ELSE <<HexChar(n \div 16), HexChar(n % 16)>>

\* b | 2
Or2(b) == IF (b \div 2) % 2 = 1 THEN b ELSE b + 2

\* randomize with "mac[0] |= 2" left out.
randomize_noLocalBit(localAdmin, plat, d) ==
  LET vendor == vendors[random(0, Len(vendors) - 1, d.vendor) + 1]
      byte0 == IF plat = "win32" THEN parseInt16(windowsPrefixes[random(0, 3, d.prefix) + 1])
               ELSE vendor[1]
      bytes == <<byte0, vendor[2], vendor[3], random(0, 127, d.b3), random(0, 255, d.b4), random(0, 255, d.b5)>>
  IN toUpperCase(Join([i \in 1..6 |-> zeroFill(2, toString16(bytes[i]))], <<":">>))

\* randomize(localAdmin) on platform plat; d holds what the six calls of
\* Math.random give.
randomize(localAdmin, plat, d) ==
  LET vendor == vendors[random(0, Len(vendors) - 1, d.vendor) + 1]
      byte0 == IF plat = "win32" THEN parseInt16(windowsPrefixes[random(0, 3, d.prefix) + 1])
               ELSE vendor[1]
      first == IF localAdmin THEN Or2(byte0) ELSE byte0
      bytes == <<first, vendor[2], vendor[3], random(0, 127, d.b3), random(0, 255, d.b4), random(0, 255, d.b5)>>
  IN toUpperCase(Join([i \in 1..6 |-> zeroFill(2, toString16(bytes[i]))], <<":">>))


\* ------------------------------------------------------------ the MAC codec: inputs and specification

\* The two hex digits of a byte, in lower or upper case.
Hex2(b, upper) ==
  LET d == <<HexChar(b \div 16), HexChar(b % 16)>> IN IF upper THEN toUpperCase(d) ELSE d

\* The spellings of six bytes: pairs separated by sep (":" or "-", <<>> for
\* bare hex), and the Cisco form of three dot-separated quads.
PairSpelling(bytes, sep, upper) == Join([i \in 1..Len(bytes) |-> Hex2(bytes[i], upper)], sep)

CiscoSpelling(bytes, upper) ==
  Join([i \in 1..3 |-> Hex2(bytes[2 * i - 1], upper) \o Hex2(bytes[2 * i], upper)], <<".">>)

SixBytes ==
  {<<0, 17, 34, 51, 68, 85>>, <<170, 187, 204, 221, 238, 255>>, <<0, 1, 0, 2, 0, 3>>,
   <<8, 0, 39, 78, 102, 161>>, <<222, 173, 190, 239, 0, 10>>,
   <<0, 0, 0, 0, 0, 0>>, <<255, 255, 255, 255, 255, 255>>}

Spellings(bytes) ==
  UNION {{PairSpelling(bytes, <<":">>, upper), PairSpelling(bytes, <<"-">>, upper),
          PairSpelling(bytes, <<>>, upper), CiscoSpelling(bytes, upper)} : upper \in BOOLEAN}

\* Strings around an address that are none of the documented forms: one byte
\* group more or less, text before or after, a separator left out, bare hex
\* of 14 and of 6 digits.
Misspellings(bytes) ==
  LET colon == PairSpelling(bytes, <<":">>, FALSE)
      bare == PairSpelling(bytes, <<>>, FALSE)
  IN {colon \o <<":","6","6">>,
      PairSpelling(SubSeq(bytes, 1, 5), <<":">>, FALSE),
      <<"x"," ">> \o colon,
      colon \o <<" ","u","p">>,
      SubSeq(colon, 1, 2) \o SubSeq(colon, 4, Len(colon)),
      bare \o <<"6","6">>,
      SubSeq(bare, 1, 6),
      PairSpelling(bytes, <<";">>, FALSE),
      CiscoSpelling(bytes, FALSE) \o <<".","0","0","6","6">>}

\* Spellings with blanks around them, with one-digit groups, and the short
\* Cisco form.
OtherSpellings ==
  {<<" ">> \o PairSpelling(<<0, 17, 34, 51, 68, 85>>, <<":">>, FALSE) \o <<" ">>,
   <<"0",":","1",":","2",":","3",":","4",":","5">>,
   <<"1",".","2",".","3">>,
   <<".",".">>, <<"z","z">>, <<" ">>}

NormalizeInputs ==
  {JsString(t) : t \in UNION {Spellings(b) \cup Misspellings(b) : b \in SixBytes} \cup OtherSpellings}
    \cup {JsString(<<>>), JsUndefined, JsNumber}

\* What Math.random gives in the calls of one randomize.
Draws == {0, RandomScale \div 2, RandomScale - 1}

RandomizeInputs ==
  {[type |-> "draws",
    val |-> [localAdmin |-> la, vendor |-> v, prefix |-> w, b3 |-> x, b4 |-> y, b5 |-> x]]
     : la \in BOOLEAN, v \in Draws \cup {RandomScale \div 8}, w \in Draws, x \in Draws, y \in Draws}

\* normalize(x), and normalize of what it gave
Normalizes ==
  /\ codecOut = NoOutput /\ codecIn.type \in JsTypes
  /\ \E first \in {normalize(codecIn)} :
       codecOut' = [op |-> "normalize", first |-> first, second |-> normalize(JsString(first))]
  /\ UNCHANGED <<codecIn, macVars, duidVars, cliVars, argv, fileVars>>

Validates ==
  /\ codecOut = NoOutput /\ codecIn.type \in JsTypes
  /\ codecOut' = [op |-> "validateMAC", result |-> validateMAC(codecIn)]
  /\ UNCHANGED <<codecIn, macVars, duidVars, cliVars, argv, fileVars>>

Randomizes ==
  /\ codecOut = NoOutput /\ codecIn.type = "draws"
  /\ codecOut' = [op |-> "randomize", mac |-> randomize(codecIn.val.localAdmin, platform, codecIn.val)]
  /\ UNCHANGED <<codecIn, macVars, duidVars, cliVars, argv, fileVars>>

\* ------------------------------------------------------------ NetworkManager device status

Unknown == <<"u","n","k","n","o","w","n">>
Yes == <<"y","e","s">>

\* parts[2].toLowerCase() === 'yes'
managedOf_caseSensitive(parts) == parts[3] = Yes

managedOf(parts) == toLowerCase(parts[3]) = Yes

\* output.split('\n').filter(line => line.trim())
statusLines(output) == SelectSeq(Fields(output, {"\n"}), LAMBDA line : trim(line) # <<>>)

NMStatus(present, running, managed, state, raw) ==
  [present |-> present, running |-> running, managed |-> managed, state |-> state, raw |-> raw]

\* The loop over the lines from line i on: the first line of three or more
\* fields that names the device returns; no such line gives 'unknown'.
RECURSIVE statusFrom(_, _, _)
statusFrom(lines, i, iface) ==
  IF i > Len(lines) THEN NMStatus(TRUE, TRUE, FALSE, Unknown, Null)
  ELSE \* forced evaluation of line.split(':')
       LET parts == CHOOSE p \in {Fields(lines[i], {":"})} : TRUE
       IN IF Len(parts) >= 3 /\ parts[1] = iface
          THEN NMStatus(TRUE, TRUE, managedOf(parts), parts[2], lines[i])
          ELSE statusFrom(lines, i + 1, iface)

\* getNMDeviceStatus(iface), given what isNetworkManagerPresent answered,
\* whether nmcli device status failed, and what it printed.
getNMDeviceStatus(iface, nmStatus, fails, output) ==
  IF ~nmStatus.present \/ ~nmStatus.running
  THEN NMStatus(nmStatus.present, nmStatus.running, FALSE, Unknown, Null)
  ELSE IF fails THEN NMStatus(TRUE, TRUE, FALSE, Unknown, Null)
  ELSE statusFrom(statusLines(output), 1, iface)

\* Lines nmcli -t -f DEVICE,STATE,MANAGED device status may print, and others.
NmLines ==
  {<<"e","t","h","0",":","c","o","n","n","e","c","t","e","d",":","y","e","s">>,
   <<"e","t","h","0",":","c","o","n","n","e","c","t","e","d",":","Y","e","s">>,
   <<"e","t","h","0",":","d","i","s","c","o","n","n","e","c","t","e","d",":","n","o">>,
   <<"w","l","a","n","0",":","c","o","n","n","e","c","t","e","d",":","y","e","s">>,
   <<"e","t","h","0",":","c","o","n","n","e","c","t","e","d">>,
   <<"e","t","h","0",":","u","n","a","v","a","i","l","a","b","l","e",":","n","o",":","x">>,
   <<" ">>,
   <<>>}

MaxLines == 3

RECURSIVE NmOutputsOf(_)
NmOutputsOf(n) ==
  IF n = 0 THEN {<<>>}
  ELSE LET shorter == NmOutputsOf(n - 1)
       IN shorter \cup {l \o <<"\n">> \o o : l \in NmLines, o \in shorter}

NmIfaces == {<<"e","t","h","0">>, <<"w","l","a","n","0">>}

NmInputs ==
  {[type |-> "nmcli",
    val |-> [iface |-> d, nmStatus |-> [present |-> s[1], running |-> s[2]], fails |-> f, output |-> o]]
     : d \in NmIfaces, s \in {<<TRUE, TRUE>>},  f \in {FALSE}, o \in NmOutputsOf(MaxLines)}
  \cup
  {[type |-> "nmcli",
    val |-> [iface |-> d, nmStatus |-> [present |-> s[1], running |-> s[2]], fails |-> f, output |-> o]]
     : d \in NmIfaces, s \in {<<TRUE, TRUE>>, <<TRUE, FALSE>>, <<FALSE, FALSE>>}, f \in BOOLEAN,
       o \in NmOutputsOf(1)}

GetsNMDeviceStatus ==
  /\ codecOut = NoOutput /\ codecIn.type = "nmcli"
  /\ codecOut' = [op |-> "getNMDeviceStatus",
                  status |-> getNMDeviceStatus(codecIn.val.iface, codecIn.val.nmStatus,
                                               codecIn.val.fails, codecIn.val.output)]
  /\ UNCHANGED <<codecIn, macVars, duidVars, cliVars, argv, fileVars>>

\* ------------------------------------------------------------ retry with exponential waitTime

\* the wait after the failed attempt i (from 0), without the doubling
waitTime_constant(delay, i) == delay

\* delay * Math.pow(2, i)
waitTime(delay, i) == delay * 2^i

\* The loop of retry(fn, maxRetries, delay) from attempt i (from 0) on, where
\* throws[k] says whether the k-th invocation of fn throws; the k-th invocation
\* returns k or throws error k. lastError 0 is undefined: nothing was caught.
RECURSIVE retryFrom(_, _, _, _, _, _)
retryFrom(throws, i, maxRetries, delay, sleeps, lastError) ==
  IF i >= maxRetries
  THEN [calls |-> i, sleeps |-> sleeps, returned |-> 0, threw |-> TRUE, error |-> lastError]
  ELSE IF ~throws[i + 1]
  THEN [calls |-> i + 1, sleeps |-> sleeps, returned |-> i + 1, threw |-> FALSE, error |-> 0]
  ELSE retryFrom(throws, i + 1, maxRetries, delay,
                 IF i < maxRetries - 1 THEN Append(sleeps, waitTime(delay, i)) ELSE sleeps,
                 i + 1)

MaxRetries == 4

RetryDelays == {1, 1000}

RetryInputs ==
  {[type |-> "retry", val |-> [throws |-> t, maxRetries |-> n, delay |-> d]]
     : t \in [1..MaxRetries -> BOOLEAN], n \in 0..MaxRetries, d \in RetryDelays}

Retries ==
  /\ codecOut = NoOutput /\ codecIn.type = "retry"
  /\ codecOut' = [op |-> "retry",
                  run |-> retryFrom(codecIn.val.throws, 0, codecIn.val.maxRetries,
                                    codecIn.val.delay, <<>>, 0)]
  /\ UNCHANGED <<codecIn, macVars, duidVars, cliVars, argv, fileVars>>

CodecInit ==
  /\ MacInit /\ DuidIdle /\ CliIdle /\ FileIdle
  /\ \/ codecIn \in NormalizeInputs \/ codecIn \in RandomizeInputs
     \/ codecIn \in NmInputs \/ codecIn \in RetryInputs
  /\ codecOut = NoOutput

CodecNext == Normalizes \/ Validates \/ Randomizes \/ GetsNMDeviceStatus \/ Retries

CodecSpec == CodecInit /\ [][CodecNext]_vars


\* ------------------------------------------------------------ properties of the MAC codec

\* The canonical form: 17 characters, upper-case hex pairs with colons between.
IsCanonical(t) ==
  /\ Len(t) = 17
  /\ \A i \in 1..17 : IF i % 3 = 0 THEN t[i] = ":" ELSE t[i] \in DecDigits \cup HexUpper

\* C11: whenever normalize(x) is not null, normalize(normalize(x)) is
\* normalize(x), and normalize(x) is in the canonical form.
C11_NormalizeIdempotent ==
  (codecOut.op = "normalize" /\ codecOut.first # Null)
    => (codecOut.second = codecOut.first /\ IsCanonical(codecOut.first))

\* normalize applied to a lower-case dash spelling.
C11_Witness ==
  /\ codecOut.op = "normalize"
  /\ codecIn = JsString(PairSpelling(<<170, 187, 204, 221, 238, 255>>, <<"-">>, FALSE))
  /\ codecOut.first = PairSpelling(<<170, 187, 204, 221, 238, 255>>, <<":">>, TRUE)
  /\ codecOut.second = codecOut.first

\* C12: normalize gives null for every input that is, blanks around it
\* aside, none of the three documented forms.
C12_OnlyDocumentedForms ==
  (codecOut.op = "normalize" /\ ~WellFormedMac(codecIn)) => codecOut.first = Null

\* The documented forms themselves are all accepted.
DocumentedFormsAccepted ==
  (codecOut.op = "normalize" /\ WellFormedMac(codecIn)) => codecOut.first # Null

\* C13: the colon, dash, bare and Cisco spellings of six bytes, in either
\* case, all normalize to the canonical spelling of those bytes, and the
\* groups of a Cisco form are padded to four digits: 1.2.3 is 00:01:00:02:00:03.
C13_SpellingsAgree ==
  codecOut.op = "normalize"
    => /\ \A b \in SixBytes :
            codecIn.val \in Spellings(b) => codecOut.first = PairSpelling(b, <<":">>, TRUE)
       /\ codecIn.val = <<"1",".","2",".","3">>
            => codecOut.first = PairSpelling(<<0, 1, 0, 2, 0, 3>>, <<":">>, TRUE)

\* normalize applied to a lower-case Cisco spelling.
C13_Witness ==
  /\ codecOut.op = "normalize"
  /\ codecIn = JsString(CiscoSpelling(<<222, 173, 190, 239, 0, 10>>, FALSE))
  /\ codecOut.first = PairSpelling(<<222, 173, 190, 239, 0, 10>>, <<":">>, TRUE)

\* The messages validateMAC gives for the inputs normalize rejects.
MalformedErrors ==
  {validateMAC(x).error : x \in {y \in NormalizeInputs : normalize(y) = Null}}

\* C14: validateMAC is valid exactly when normalize succeeds with an address
\* that is neither all zeros nor broadcast; those two are answered with a
\* message no malformed input gets, and a malformed input with normalized null.
C14_ValidateMAC ==
  codecOut.op = "validateMAC"
    => LET r == codecOut.result
           n == normalize(codecIn)
       IN /\ r.valid <=> (n # Null /\ n # ZeroMac /\ n # BroadcastMac)
          /\ n \in {ZeroMac, BroadcastMac}
               => (~r.valid /\ r.error # "" /\ r.error \notin MalformedErrors)
          /\ n = Null => (~r.valid /\ r.normalized = Null /\ r.error # "")
          /\ r.valid => (r.normalized = n /\ r.error = "")

\* validateMAC applied to the all-zero address in dash form.
C14_Witness ==
  /\ codecOut.op = "validateMAC"
  /\ codecIn = JsString(PairSpelling(<<0, 0, 0, 0, 0, 0>>, <<"-">>, FALSE))
  /\ ~codecOut.result.valid /\ codecOut.result.normalized = ZeroMac

\* C15: without localAdmin, byte 0 of a random address is the first byte of
\* a vendor prefix (on win32 one of D2, D6, DA, DE) and bytes 1-2 are those of
\* a vendor prefix; byte 3 is at most 0x7F; with localAdmin, bit 0x02 of byte
\* 0 is set and bit 0x01 is clear.
C15_RandomizeConstraints ==
  codecOut.op = "randomize"
    => LET bytes == MacBytes(codecOut.mac)
       IN /\ IsCanonical(codecOut.mac)
          /\ bytes[4] <= 127
          /\ \E i \in 1..Len(vendors) :
               /\ bytes[2] = vendors[i][2] /\ bytes[3] = vendors[i][3]
               /\ ~codecIn.val.localAdmin
                    => IF platform = "win32" THEN bytes[1] \in {210, 214, 218, 222}
                       ELSE bytes[1] = vendors[i][1]
          /\ codecIn.val.localAdmin => ((bytes[1] \div 2) % 2 = 1 /\ bytes[1] % 2 = 0)

\* A locally administered address made from the VirtualBox prefix: 08 became 0A.
C15_Witness ==
  /\ codecOut.op = "randomize" /\ codecIn.val.localAdmin /\ platform = "linux"
  /\ SubSeq(codecOut.mac, 1, 8) = <<"0","A",":","0","0",":","2","7">>


\* ------------------------------------------------------------ the spoofy commands set, randomize, reset (bin/cmd.js)

Eth0 == <<"e","t","h","0">>

\* addHistoryEntry with push in the place of unshift.
addHistoryEntry_appends(entries, device, oldMac, new, operation, saved) ==
  LET entry == [device |-> device, oldMac |-> oldMac, newMac |-> new,
                operation |-> operation, platform |-> platform]
      all == entries \o <<entry>>
      kept == IF Len(all) > HistoryLimit THEN SubSeq(all, 1, HistoryLimit) ELSE all
  IN IF saved THEN kept ELSE entries

\* addHistoryEntry on the entries read from the file (the timestamp is left
\* out); saved: whether saveHistory could write the file (it fails silently).
addHistoryEntry(entries, device, oldMac, new, operation, saved) ==
  LET entry == [device |-> device, oldMac |-> oldMac, newMac |-> new,
                operation |-> operation, platform |-> platform]
      all == <<entry>> \o entries
      kept == IF Len(all) > HistoryLimit THEN SubSeq(all, 1, HistoryLimit) ELSE all
  IN IF saved THEN kept ELSE entries

\* findInterface(target): the first interface found, Null for none. found:
\* the listing command ran and names the device. networksetup lists the
\* hardware address; "ip -o link show" (link/ether) and Get-NetAdapter
\* (MacAddress) give the address the adapter holds now.
findInterface(plat, target, port, found) ==
  IF ~found \/ plat \notin {"darwin", "linux", "win32"} THEN Null
  ELSE [device |-> target,
        port |-> IF plat = "linux" THEN target ELSE port,
        address |-> IF plat = "darwin" THEN normalize(JsString(toUpperCase(HwMac)))
                    ELSE normalize(JsString(IF plat = "win32" THEN DashOutput(ifaceMac)
                                            ELSE toLowerCase(ifaceMac)))]

NotElevated == "Must run as root or Administrator to change network settings"
NotFound == "Could not find device"

\* How the privilege check of setMACAddress may end; "unknown": the win32
\* check itself failed, which only warns.
Privileges == {"yes", "no", "unknown"}

\* The command ends with an error before setInterfaceMAC is called.
CliThrows(operation, device, m, oldMac, msg, privileged) ==
  /\ cliCall' = [operation |-> operation, device |-> device, mac |-> m, oldMac |-> oldMac,
                 nmOptions |-> Null, privileged |-> privileged]
  /\ cliPc' = "done" /\ cliOut' = msg
  /\ UNCHANGED <<cliSaved, macVars, duidVars, codecVars, argv, fileVars>>

\* the privilege check left out
notElevated_never(privileged, plat) == FALSE

\* The privilege check of setMACAddress throws: on Windows when the check
\* answers something other than "true" (a check that itself fails only warns),
\* elsewhere when process.getuid() is not 0.
notElevated(privileged, plat) ==
  privileged = "no" \/ (privileged = "unknown" /\ plat # "win32")

\* setMACAddress(device, mac, port, operation) up to its call of
\* setInterfaceMAC: the read of oldMac, the privilege check, the
\* NetworkManager check (managed: a running NetworkManager manages the
\* device), the call.
setMACAddress(device, m, port, operation, first, privileged, managed, nmReconnect, force) ==
  \E oldMac \in {getInterfaceMAC(platform, ifaceMac, first, "ok")}, new \in {m} :
    LET refused == notElevated(privileged, platform)
        nmOptions == IF platform = "linux" /\ managed /\ nmReconnect
                     THEN [reconnect |-> TRUE, force |-> force] ELSE Null
    IN IF refused THEN CliThrows(operation, device, new, oldMac, NotElevated, privileged)
       ELSE /\ cliCall' = [operation |-> operation, device |-> device, mac |-> new,
                           oldMac |-> oldMac, nmOptions |-> nmOptions, privileged |-> privileged]
            /\ cliPc' = "engine" /\ cliOut' = ""
            /\ setInterfaceMAC(JsString(device), JsString(new), port, nmOptions)
            /\ UNCHANGED <<cliSaved, duidVars, codecVars, argv, fileVars>>

\* init runs the one command of the process's command line.
CliStarts == cliPc = "idle" /\ pc = "idle"

\* spoofy set <mac> <device>
set(m, device, port, found, first, privileged, managed, nmReconnect, force) ==
  /\ CliStarts
  /\ \E it \in {findInterface(platform, device, port, found)} :
       IF it = Null THEN CliThrows("set", device, m, Null, NotFound, "unchecked")
       ELSE setMACAddress(it.device, m, it.port, "set", first, privileged, managed, nmReconnect, force)

\* spoofy randomize <device>; d: what Math.random gives.
cli_randomize(device, port, found, useLocal, d, first, privileged, managed, nmReconnect, force) ==
  /\ CliStarts
  /\ \E it \in {findInterface(platform, device, port, found)} :
       IF it = Null THEN CliThrows("randomize", device, Null, Null, NotFound, "unchecked")
       ELSE setMACAddress(it.device, randomize(useLocal, platform, d), it.port, "randomize",
                          first, privileged, managed, nmReconnect, force)

\* spoofy reset <device>: the address handed to setMACAddress is it.address.
reset(device, port, found, first, privileged, managed, nmReconnect, force) ==
  /\ CliStarts
  /\ \E it \in {findInterface(platform, device, port, found)} :
       IF it = Null THEN CliThrows("reset", device, Null, Null, NotFound, "unchecked")
       ELSE IF it.address = Null
       THEN CliThrows("reset", device, Null, Null, "Could not read hardware MAC address", "unchecked")
       ELSE setMACAddress(it.device, it.address, it.port, "reset",
                          first, privileged, managed, nmReconnect, force)

\* setMACAddress after "await spoof.setInterfaceMAC(...)": the history entry
\* on a normal return, the error thrown on otherwise.
CliReturns ==
  /\ cliPc = "engine" /\ pc = "done"
  /\ cliPc' = "done"
  /\ IF result.status = "ok"
     THEN /\ \E saved \in BOOLEAN :
               /\ history' = addHistoryEntry(history, cliCall.device, cliCall.oldMac, cliCall.mac,
                                             cliCall.operation, saved)
               /\ cliSaved' = saved
          /\ cliOut' = "ok"
     ELSE history' = history /\ cliOut' = result.msg /\ UNCHANGED cliSaved
  /\ UNCHANGED <<cliCall, macVars, codecVars, argv, fileVars>>
  /\ UNCHANGED <<duidCurrent, duidOriginal, duidPc, duidCall, duidWrites, duidOut, calls, firstBefore>>

\* ------------------------------------------------------------ the commands' specification

Mac_dash_colons == [i \in 1..Len(Mac_dash) |-> IF Mac_dash[i] = "-" THEN ":" ELSE Mac_dash[i]]

CliMacInputs == {Mac_colon, Mac_junk}
CliPorts == {<<"W","i","-","F","i">>, <<"E","t","h","e","r","n","e","t">>}
CliReads == {"ok", "err"}
CliDraws == {[localAdmin |-> TRUE, vendor |-> RandomScale - 1, prefix |-> 0, b3 |-> 0, b4 |-> RandomScale \div 2,
              b5 |-> RandomScale - 1]}

\* What the environment of a command may be: on linux only is NetworkManager
\* looked at, on darwin only does the port matter.
CliEnvironments ==
  {e \in [port : CliPorts, found : BOOLEAN, first : CliReads, privileged : Privileges,
          managed : BOOLEAN, nmReconnect : BOOLEAN, force : BOOLEAN] :
     /\ platform # "darwin" => e.port = <<"W","i","-","F","i">>
     /\ platform # "linux" => (~e.managed /\ ~e.nmReconnect /\ ~e.force)
     /\ ~e.nmReconnect => ~e.force
     /\ ~e.managed => ~e.force
     /\ ~e.found => (e.first = "ok" /\ e.privileged = "yes" /\ ~e.managed /\ ~e.nmReconnect)
     /\ e.privileged = "unknown" => platform = "win32"}

CliSet ==
  \E m \in CliMacInputs, e \in CliEnvironments :
    set(m, Eth0, e.port, e.found, e.first, e.privileged, e.managed, e.nmReconnect, e.force)

CliRandomize ==
  \E d \in CliDraws, e \in CliEnvironments :
    cli_randomize(Eth0, e.port, e.found, d.localAdmin, d, e.first, e.privileged, e.managed,
                  e.nmReconnect, e.force)

CliReset ==
  \E e \in CliEnvironments :
    reset(Eth0, e.port, e.found, e.first, e.privileged, e.managed, e.nmReconnect, e.force)

\* The address an earlier "spoofy set" gave the adapter.
SpoofedMac == toUpperCase(Mac_dash_colons)

\* A spoofy process starts on an adapter that holds its hardware address or
\* one set by an earlier process, with a history file that is empty or holds
\* the earlier change.
CliInit ==
  /\ platform \in Platforms
  /\ ifaceMac \in {HwMac, SpoofedMac} /\ ifaceUp = TRUE
  /\ MacIdle /\ CodecIdle /\ CliIdle /\ FileIdle
  /\ duidCurrent = Null /\ duidOriginal = Null /\ duidPc = "idle"
  /\ duidCall = <<>> /\ duidWrites = 0 /\ duidOut = "" /\ calls = 0 /\ firstBefore = Null
  /\ history \in {<<>>, addHistoryEntry(<<>>, Eth0, HwMac, SpoofedMac, "set", TRUE)}

CliNext ==
  \/ CliSet \/ CliRandomize \/ CliReset \/ CliReturns
  \/ LinuxDown \/ LinuxAddress \/ LinuxUp \/ LinuxVerify
  \/ LinuxNMDisconnect \/ LinuxNMConnect \/ LinuxNMNetworkingOff \/ LinuxNMNetworkingOn
  \/ DarwinDown \/ DarwinEther \/ DarwinUp \/ DarwinVerify
  \/ DarwinAirportOff \/ DarwinAirportOn \/ DarwinWifiEther \/ DarwinDetect
  \/ WinSetNetAdapter \/ WinGetGuid \/ WinDisable \/ WinFindPath \/ WinSetRegistry
  \/ WinReenable \/ WinEnable \/ WinVerify

CliSpec == CliInit /\ [][CliNext]_vars


\* ------------------------------------------------------------ properties of the commands

\* The commands of the NetworkManager reconnection, and all it starts.
NmCmds == {i \in 1..Len(cmds) : cmds[i].role = "nm"}
NmSteps == {i \in 1..Len(cmds) : cmds[i].role \in {"nm", "nm-check"}}

\* The reconnection is under way or over.
Reconnecting == pc \in {"nm_reconnect", "nm_connect", "nm_on"} \/ NmSteps # {}

\* C16: the reconnection starts only after every write command and the
\* verification read, and only when that read gave the desired address.
C16_ReconnectAfterVerifiedChange ==
  Reconnecting
    => /\ \A i \in NmSteps : \A j \in WriteCmds \cup ReadCalls : j < i
       /\ ReadCalls # {}
       /\ newMac # Null /\ SameMac(newMac, mac)

\* The order alone: every write and the read come before the reconnection,
\* no write was recorded as failed, and the read did not give another address.
ReconnectAfterWritesAndRead ==
  Reconnecting
    => /\ \A i \in NmSteps : \A j \in WriteCmds \cup ReadCalls : j < i
       /\ Cardinality(WriteCmds) = 3 /\ Cardinality(ReadCalls) = 1
       /\ macChangeError = ""
       /\ newMac # Null => SameMac(newMac, mac)

\* C17: when --nm-reconnect was given for a managed device, every call of
\* setInterfaceMAC that returns normally has started the reconnection.
C17_SuccessIsFollowedByReconnect ==
  (cliPc = "engine" /\ Ended /\ result.status = "ok" /\ cliCall.nmOptions # Null)
    => NmSteps # {}

\* A reconnection that fails leaves the call a success.
ReconnectFailureKeepsSuccess ==
  (Ended /\ NmSteps # {}) => result.status = "ok"

\* setMACAddress comes back from setInterfaceMAC in this step.
CallEnds == cliPc = "engine" /\ cliPc' = "done"

\* The step puts one entry for the ended call in front of the entries there were.
LogsTheChange ==
  /\ Len(history') = Len(history) + 1 /\ Tail(history') = history
  /\ history'[1].device = cliCall.device /\ history'[1].oldMac = cliCall.oldMac
  /\ history'[1].newMac = cliCall.mac /\ history'[1].operation = cliCall.operation

ResetCalls == cliPc \in {"engine", "done"} /\ cliCall.operation = "reset" /\ cliCall.mac # Null

\* C19: on every platform the address that reset writes is the hardware
\* address of the device, whatever address the device holds at that time, and
\* a reset that succeeded leaves the device with it.
C19_ResetWritesHardwareMac ==
  ResetCalls => /\ SameMac(cliCall.mac, HwMac)
                /\ (cliPc = "done" /\ cliOut = "ok" /\ newMac # Null) => ifaceMac = HwMac

\* On darwin it is: networksetup lists the hardware address.
DarwinResetWritesHardwareMac ==
  (ResetCalls /\ platform = "darwin") => SameMac(cliCall.mac, HwMac)

\* On linux and win32 reset writes the address the device holds already.
ResetWritesCurrentMac ==
  (ResetCalls /\ cliPc = "engine" /\ pc # "done" /\ cmds = <<>> /\ platform \in {"linux", "win32"})
    => SameMac(cliCall.mac, ifaceMac)

\* ------------------------------------------------------------ properties of the DUID type option

\* The variant of a DUID: its first two bytes.
VariantOf(d) == d[1] * 256 + d[2]

\* C20: a randomize or sync started as "spoofy duid ... --type=T" applies a
\* DUID of variant T, and one of variant LL only when the command line holds
\* no --type option.
C20_TypeOptionHonoured ==
  (argv # Null /\ duidPc = "write" /\ duidCall.op \in {"randomize", "sync"})
    => VariantOf(duidCall.value) = parseDuidType(typeArgOf(argv))

\* What happens instead: the variant is the one named after a "--", and LL
\* for every other command line.
TypeOptionIsDropped ==
  (argv # Null /\ duidPc = "write" /\ duidCall.op \in {"randomize", "sync"})
    => VariantOf(duidCall.value) = parseDuidType(typeArgOf(minimist(argv)))

\* ------------------------------------------------------------ properties of "spoofy duid original clear"

\* The step is "spoofy duid original clear ..." run from the command line.
ClearFromCommandLine ==
  /\ calls' = calls + 1 /\ argv' # Null
  /\ Len(argv') >= 3 /\ argv'[2] = <<"o","r","i","g","i","n","a","l">>

\* C21: "spoofy duid original clear --force", run with privileges while an
\* original is stored, deletes the stored original; without --force, or
\* without privileges, it is never deleted and the exit status is not zero.
C21_ClearNeedsForce ==
  [][ClearFromCommandLine
       => IF includes(argv', ForceFlag) /\ duidOut' # NoPrivileges /\ duidOriginal # Null
          THEN duidOriginal' = Null /\ duidOut' \notin ClearExitsNonZero
          ELSE /\ duidOriginal' = duidOriginal
               /\ (duidOut' = NoPrivileges \/ duidOriginal # Null) => duidOut' \in ClearExitsNonZero]_vars

\* What happens instead: from the command line the stored original is never
\* deleted, with or without --force.
ClearFromCommandLineKeepsOriginal ==
  [][ClearFromCommandLine => duidOriginal' = duidOriginal]_vars

\* Handed to duid-cli as an argument, --force does delete it.
ClearWithForceDeletes ==
  [][(calls' = calls + 1 /\ duidCall'.op = "clear" /\ duidOut' = "Original DUID storage cleared.")
       => (duidOriginal # Null /\ duidOriginal' = Null /\ argv' = Null)]_vars

\* ------------------------------------------------------------ properties of getNMDeviceStatus

\* 'yes' in any case
YesSpellings ==
  {<<y, e, s>> : y \in {"y", "Y"}, e \in {"e", "E"}, s \in {"s", "S"}}

\* The lines of the nmcli output that decide: three or more fields, the first the device.
DecidingLines(output, iface) ==
  LET lines == Fields(output, {"\n"})
  IN {i \in 1..Len(lines) : LET parts == Fields(lines[i], {":"})
                             IN Len(parts) >= 3 /\ parts[1] = iface}

FirstDecidingLine(output, iface) ==
  LET at == DecidingLines(output, iface)
  IN Fields(output, {"\n"})[CHOOSE i \in at : \A j \in at : i <= j]

\* C22: getNMDeviceStatus(iface) reports managed = true exactly when
\* NetworkManager is present and running and the first line of the nmcli
\* status output that has three or more colon-separated fields and whose first
\* field is iface has 'yes' (in any case) as its third field; an interface
\* that no such line names is reported unmanaged with state 'unknown'.
C22_ManagedFromFirstMatchingLine ==
  codecOut.op = "getNMDeviceStatus" =>
    LET in == codecIn.val
        deciding == DecidingLines(in.output, in.iface)
        answered == in.nmStatus.present /\ in.nmStatus.running /\ ~in.fails
    IN /\ codecOut.status.managed
            = (/\ answered
               /\ deciding # {}
               /\ Fields(FirstDecidingLine(in.output, in.iface), {":"})[3] \in YesSpellings)
       /\ deciding = {} => ~codecOut.status.managed /\ codecOut.status.state = Unknown

\* a status whose second matching line says otherwise than the first, which is
\* spelled 'Yes', after a line of two fields and an empty line
C22_Witness ==
  /\ codecOut.op = "getNMDeviceStatus"
  /\ codecOut.status.managed
  /\ codecOut.status.raw # Null /\ codecOut.status.raw[Len(codecOut.status.raw)] = "s"
  /\ codecOut.status.raw[Len(codecOut.status.raw) - 2] = "Y"
  /\ Len(statusLines(codecIn.val.output)) = 2
  /\ Len(Fields(statusLines(codecIn.val.output)[1], {":"})) = 2

\* an interface in no line is unmanaged, state 'unknown'
C22_NotListed ==
  /\ codecOut.op = "getNMDeviceStatus"
  /\ codecIn.val.nmStatus.running /\ ~codecIn.val.fails
  /\ Len(statusLines(codecIn.val.output)) = 3
  /\ DecidingLines(codecIn.val.output, codecIn.val.iface) = {}
  /\ codecOut.status.state = Unknown /\ ~codecOut.status.managed


\* ------------------------------------------------------------ properties of retry

\* the first invocation of fn, among the first n, that does not throw; 0 if none
FirstReturning(throws, n) ==
  LET ok == {k \in 1..n : ~throws[k]}
  IN IF ok = {} THEN 0 ELSE CHOOSE k \in ok : \A j \in ok : k <= j

\* the waits after the failed attempts 0..n-1
WaitsAfter(n, delay) == [k \in 1..n |-> delay * 2^(k - 1)]

\* C26: retry(fn, maxRetries, delay) invokes fn at most maxRetries times,
\* returns the first result that does not throw without invoking fn again,
\* sleeps delay * 2^i after the failed attempt i (from 0) except after the last
\* one, and when every attempt throws rethrows the error of the last attempt.
C26_RetryBacksOff ==
  codecOut.op = "retry" =>
    LET in == codecIn.val
        run == codecOut.run
        first == FirstReturning(in.throws, in.maxRetries)
    IN /\ run.calls <= in.maxRetries
       /\ first # 0 => /\ ~run.threw /\ run.returned = first /\ run.calls = first
                       /\ run.sleeps = WaitsAfter(first - 1, in.delay)
       /\ first = 0 => /\ run.threw /\ run.calls = in.maxRetries
                       /\ run.error = in.maxRetries
                       /\ run.sleeps = WaitsAfter(in.maxRetries - 1, in.delay)

\* the third attempt returns after waits of 1000 and 2000
C26_Witness ==
  /\ codecOut.op = "retry" /\ codecIn.val.maxRetries = 4
  /\ codecOut.run.returned = 3 /\ codecOut.run.calls = 3
  /\ codecOut.run.sleeps = <<1000, 2000>>

\* every attempt throws: three waits, none after the last, the last error rethrown
C26_AllThrow ==
  /\ codecOut.op = "retry" /\ codecIn.val.maxRetries = 4
  /\ codecOut.run.threw /\ codecOut.run.error = 4
  /\ codecOut.run.sleeps = <<1000, 2000, 4000>>

\* ------------------------------------------------------------ MAC changes need privileges

\* The command was run without root (on Windows: the check answered "not administrator").
Unprivileged == cliPc # "idle" /\ cliCall.privileged = "no"

\* C23: when the process is not root (on Windows: when the administrator check
\* answers that it is not an administrator) setMACAddress throws before
\* setInterfaceMAC is called: no command is issued to the system, the adapter
\* keeps its address and nothing is added to the history.
C23_NoChangeWithoutPrivileges ==
  [][Unprivileged' => /\ cliPc' = "done" /\ cliOut' = NotElevated
                      /\ pc' = "idle" /\ cmds' = <<>>
                      /\ ifaceMac' = ifaceMac /\ history' = history]_vars

\* a command refused on Linux, and one refused on Windows
C23_Witness ==
  /\ cliPc = "done" /\ cliCall.privileged = "no" /\ cliOut = NotElevated
  /\ platform = "linux" /\ cliCall.operation = "randomize"

C23_WitnessWindows ==
  /\ cliPc = "done" /\ cliCall.privileged = "no" /\ cliOut = NotElevated
  /\ platform = "win32"

\* On Windows a privilege check that itself fails lets the command go on.
WindowsUncheckedGoesOn ==
  /\ platform = "win32" /\ cliPc # "idle" /\ cliCall.privileged = "unknown"
  /\ cmds # <<>>

\* ------------------------------------------------------------ a backend that reports missing privileges

\* A call on Windows ended in the error thrown after a write command failed
\* with a message that includes "Permission".
PrivilegeFailure ==
  /\ Ended /\ platform = "win32" /\ macChangeError # ""
  /\ result.status = "error" /\ result.suggestions = 5

\* C24: when the platform backend reports insufficient privilege during a
\* mutation, the call fails with a PermissionError (code PERMISSION_ERROR),
\* distinct from NetworkError.
C24_PrivilegeFailureIsPermissionError ==
  PrivilegeFailure => result.name = "PermissionError" /\ result.code = "PERMISSION_ERROR"

\* What the code does: the failure is a NetworkError that carries the
\* escalation guidance, and no call ever ends in a PermissionError.
PrivilegeFailureIsNetworkError ==
  PrivilegeFailure => result.name = "NetworkError" /\ result.code = "NETWORK_ERROR"

NoPermissionErrorEver == result.name # "PermissionError"

\* ------------------------------------------------------------ down, set address, up, read

\* The running or last call took the down / set address / up path: Linux, or
\* macOS with a port that is not Wi-Fi.
DownUpPath ==
  /\ Validated /\ pc # "idle"
  /\ platform = "linux" \/ (platform = "darwin" /\ ~isWirelessPort(argPort))

\* The commands of the call so far, by name.
Issued == [i \in 1..Len(cmds) |-> cmds[i].name]

DownCmd == IF platform = "linux" THEN "ip link set down" ELSE "ifconfig down"
AddressCmd == IF platform = "linux" THEN "ip link set address" ELSE "ifconfig ether"
UpCmd == IF platform = "linux" THEN "ip link set up" ELSE "ifconfig up"

IsPrefix(a, b) == Len(a) <= Len(b) /\ a = SubSeq(b, 1, Len(a))

DownFailed == macChangeError = "Unable to bring interface down"

\* C27: on Linux and on macOS for ports other than Wi-Fi the commands of a
\* call are issued in the order down, set address, up, verification read;
\* the address is set only when "down" succeeded, and "up" is issued after the
\* "down" attempt whether or not "down" or "set address" failed: no call gets
\* to its verification read or ends without "up" issued.
C27_DownAddressUpRead ==
  DownUpPath =>
    /\ \/ ~DownFailed /\ IsPrefix(Issued, <<DownCmd, AddressCmd, UpCmd, "ifconfig">>)
       \/ DownFailed /\ IsPrefix(Issued, <<DownCmd, UpCmd, "ifconfig">>)
    /\ pc \in {"verify", "done"} => \E i \in 1..Len(cmds) : Issued[i] = UpCmd
    /\ Ended => Issued[Len(cmds)] = "ifconfig"

\* "down" failed: "up" is issued next, then the read
C27_Witness ==
  /\ DownUpPath /\ Ended /\ platform = "linux"
  /\ Issued = <<DownCmd, UpCmd, "ifconfig">>

\* "set address" failed on macOS: "up" is issued next, then the read
C27_AddressFailed ==
  /\ DownUpPath /\ Ended /\ platform = "darwin" /\ macChangeError = "err.message"
  /\ Issued = <<DownCmd, AddressCmd, UpCmd, "ifconfig">>

\* ------------------------------------------------------------ the registry method re-enables the adapter

RegistryCmds ==
  Lookups \cup {"Disable-NetAdapter", "Set-ItemProperty NetworkAddress", "Enable-NetAdapter"}

\* Disable-NetAdapter was issued in the call and did not fail.
DisableSucceeded ==
  /\ platform = "win32" /\ Validated
  /\ \E i \in 1..Len(cmds) : Issued[i] = "Disable-NetAdapter"
  /\ pc # "disable" /\ macChangeError # "Could not disable adapter"

\* C28: in the registry method of Windows the adapter is never left disabled
\* without an attempt to enable it again: on every path that goes on after
\* Disable-NetAdapter succeeded, an Enable-NetAdapter command is issued after
\* it before the call gets to its verification, returns or throws; and the
\* registry method is entered only after Set-NetAdapter failed, so its
\* commands follow a Set-NetAdapter command that was the first of the call.
C28_DisabledAdapterIsReenabled ==
  /\ (DisableSucceeded /\ pc \in {"verify", "hung", "done"}) =>
        \E i, j \in 1..Len(cmds) :
          i < j /\ Issued[i] = "Disable-NetAdapter" /\ Issued[j] = "Enable-NetAdapter"
  /\ (platform = "win32" /\ Validated) =>
        \A i \in 1..Len(cmds) :
          Issued[i] \in RegistryCmds =>
            /\ i >= 2 /\ Issued[1] = "Set-NetAdapter -MacAddress"
            /\ \A k \in 2..i : Issued[k] \in RegistryCmds

\* the registry path was not found: the adapter is enabled again before the throw
C28_Witness ==
  /\ DisableSucceeded /\ Ended /\ result.status = "error"
  /\ macChangeError = "Could not find adapter registry path"
  /\ Len(cmds) >= 5 /\ cmds[5] = Cmd("Enable-NetAdapter", "write", ReenableTimeout)

\* the registry value was written and the adapter enabled: the call returns
C28_RegistrySucceeded ==
  /\ DisableSucceeded /\ Ended /\ result.status = "ok" /\ macChangeError = ""
  /\ Len(cmds) >= 6 /\ cmds[6] = Cmd("Enable-NetAdapter", "write", ExecTimeout)

\* ------------------------------------------------------------ the history file, call after call

\* The value the n-th change gives (a MAC address, or the text of a DUID).
NthAddress(n) == <<"0","2",":","0","0",":","0","0",":","0","0",":","0","0",":">> \o Hex2(n, TRUE)

\* The entry the n-th change writes, MAC and DUID changes in turn.
NthEntry(n) ==
  Head(IF n % 2 = 0
       THEN addDUIDHistoryEntry(<<>>, Eth0, NthAddress(n - 1), NthAddress(n), "set", Null, TRUE)
       ELSE addHistoryEntry(<<>>, Eth0, NthAddress(n - 1), NthAddress(n), "set", TRUE))

\* The file after n changes, each saved, while n is within the limit.
Filled(n) == [i \in 1..n |-> NthEntry(n + 1 - i)]

\* Calls made beyond the limit of the file.
MaxAdds == 2

HistoryFrame ==
  UNCHANGED <<macVars, codecVars, argv, procs, cliPc, cliCall, cliOut,
              duidCurrent, duidOriginal, duidPc, duidCall, duidWrites, duidOut, calls, firstBefore>>

\* history.addHistoryEntry(device, oldMac, newMac, operation)
AddsHistoryEntry ==
  /\ added < HistoryLimit + MaxAdds
  /\ \E saved \in BOOLEAN, operation \in {"set", "reset"} :
       /\ history' = addHistoryEntry(history, Eth0, NthAddress(added), NthAddress(added + 1),
                                     operation, saved)
       /\ cliSaved' = saved
  /\ added' = added + 1
  /\ HistoryFrame

\* history.addDUIDHistoryEntry(device, oldDuid, newDuid, operation, iface)
AddsDUIDHistoryEntry ==
  /\ added < HistoryLimit + MaxAdds
  /\ \E saved \in BOOLEAN, device \in {Null, Eth0} :
       /\ history' = addDUIDHistoryEntry(history, device, NthAddress(added), NthAddress(added + 1),
                                         "randomize", Null, saved)
       /\ cliSaved' = saved
  /\ added' = added + 1
  /\ HistoryFrame

HistoryInit ==
  /\ MacInit /\ platform = "linux" /\ CodecIdle /\ CliIdle /\ procs = <<>>
  /\ duidCurrent = Null /\ duidOriginal = Null /\ duidPc = "idle"
  /\ duidCall = <<>> /\ duidWrites = 0 /\ duidOut = "" /\ calls = 0 /\ firstBefore = Null
  /\ \E n \in (HistoryLimit - 2)..HistoryLimit : added = n /\ history = Filled(n)

HistoryNext == AddsHistoryEntry \/ AddsDUIDHistoryEntry

HistorySpec == HistoryInit /\ [][HistoryNext]_vars


\* ------------------------------------------------------------ properties of the history file

\* Which call wrote the entry e, among the first n.
EntryNo(e, n) ==
  \* read from the last byte of the value the call wrote
  LET value == IF "newMac" \in DOMAIN e THEN e.newMac ELSE e.newDuid
  IN 16 * HexValue(value[Len(value) - 1]) + HexValue(value[Len(value)])

\* The entries of h stand newest first.
NewestFirst(h, n) ==
  \A i \in 1..(Len(h) - 1) : EntryNo(h[i], n) > EntryNo(h[i + 1], n)

\* The file after a call is the new entry followed by what the file held, cut
\* after the first HistoryLimit entries: only the oldest are dropped.
NewEntryFirst(before, after, n) ==
  /\ EntryNo(after[1], n) = n
  /\ Len(after) = (IF Len(before) < HistoryLimit THEN Len(before) + 1 ELSE HistoryLimit)
  /\ \A i \in 2..Len(after) : after[i] = before[i - 1]

C29_NothingDroppedBelowLimit ==
  /\ added = HistoryLimit /\ cliSaved /\ Len(history) = HistoryLimit
  /\ EntryNo(history[HistoryLimit], added) = 1

\* ------------------------------------------------------------ spoofy batch <file> (bin/cmd.js)

\* An operation of the batch file; Null: the key is absent.
BatchOp(type, device, m) == [type |-> type, device |-> device, mac |-> m]

\* The conditions of the three branches of the loop body.
validOperation(operation) ==
  \/ operation.type = "set" /\ operation.device # Null /\ operation.mac # Null
  \/ operation.type = "randomize" /\ operation.device # Null
  \/ operation.type = "reset" /\ operation.device # Null

\* the loop ends at the first operation that fails
nextIndex_break(index, failed, total) == IF failed THEN total ELSE index + 1

\* "index++": the loop goes on to the next operation whatever the last one did.
nextIndex(index, failed, total) == index + 1

\* results.push({ success, operation, [mac], [error], index })
BatchResult(success, operation, m, index) ==
  [success |-> success, operation |-> operation, mac |-> m, index |-> index]

Batching == cliPc = "batch"

BatchFrame ==
  UNCHANGED <<platform, ifaceUp, pc, argMac, argDevice, argPort, argNm, mac, macChangeError,
              newMac, cmds, result, codecVars, argv, fileVars,
              duidCurrent, duidOriginal, duidPc, duidCall, duidWrites, duidOut, calls, firstBefore>>

\* batch(file) up to its loop: the file is missing, cannot be parsed or holds
\* no array (each throws), or holds the array config.
batch(file, config) ==
  /\ CliStarts
  /\ cliCall' = [operation |-> "batch", config |-> config, index |-> 0, results |-> <<>>,
                 successCount |-> 0, failCount |-> 0]
  /\ IF file = "array" THEN cliPc' = "batch" /\ cliOut' = ""
     ELSE cliPc' = "done" /\ cliOut' = file
  /\ UNCHANGED <<ifaceMac, history, cliSaved>>
  /\ BatchFrame

\* One turn of the loop. found: findInterface finds the device; returns:
\* setMACAddress returns (else it throws, the adapter and the history left as
\* they were); saved: saveHistory could write; d: what Math.random gives.
batchOperation(found, returns, saved, d) ==
  /\ Batching /\ cliCall.index < Len(cliCall.config)
  /\ \E operation \in {cliCall.config[cliCall.index + 1]} :
       \E it \in {IF validOperation(operation)
                   THEN findInterface(platform, operation.device, operation.device, found)
                   ELSE Null} :
         \E m \in {IF it = Null THEN Null
                    ELSE IF operation.type = "set" THEN operation.mac
                    ELSE IF operation.type = "randomize" THEN randomize(FALSE, platform, d)
                    ELSE it.address} :
           \E success \in {it # Null /\ m # Null /\ returns} :
             /\ cliCall' =
                  [cliCall EXCEPT
                     !.results = Append(@, BatchResult(success, operation,
                                                        IF success /\ operation.type = "randomize"
                                                        THEN m ELSE Null,
                                                        cliCall.index)),
                     !.successCount = IF success THEN @ + 1 ELSE @,
                     !.failCount = IF success THEN @ ELSE @ + 1,
                     !.index = nextIndex(@, ~success, Len(cliCall.config))]
             /\ IF success
                THEN /\ ifaceMac' = m
                     /\ history' = addHistoryEntry(history, it.device, ifaceMac, m,
                                                   "batch-" \o operation.type, saved)
                     /\ cliSaved' = saved
                ELSE UNCHANGED <<ifaceMac, history, cliSaved>>
  /\ UNCHANGED <<cliPc, cliOut>>
  /\ BatchFrame

\* After the loop: the summary (total, success, failed, results).
batchSummary ==
  /\ Batching /\ cliCall.index >= Len(cliCall.config)
  /\ cliPc' = "done" /\ cliOut' = "summary"
  /\ UNCHANGED <<cliCall, ifaceMac, history, cliSaved>>
  /\ BatchFrame

\* The operations a batch file may hold, and the files of up to MaxOps of them.
MaxOps == 2

BatchOps ==
  {BatchOp("set", Eth0, Mac_colon), BatchOp("set", Eth0, Null), BatchOp("randomize", Eth0, Null),
   BatchOp("reset", Eth0, Null), BatchOp("reset", Null, Null), BatchOp("list", Eth0, Null)}

BatchConfigs == UNION {[1..n -> BatchOps] : n \in 0..MaxOps}

BatchFiles == {"array", "Batch file not found", "Failed to parse batch file",
               "Batch file must contain an array of operations"}

Batch ==
  \E file \in BatchFiles, config \in BatchConfigs :
    /\ file # "array" => config = <<>>
    /\ batch(file, config)

BatchOperation ==
  \E found, returns, saved \in BOOLEAN, d \in CliDraws :
    /\ ~returns => ~saved
    /\ batchOperation(found, returns, saved, d)

BatchNext == Batch \/ BatchOperation \/ batchSummary

BatchSpec == CliInit /\ [][BatchNext]_vars


\* ------------------------------------------------------------ properties of spoofy batch

\* The results that report success.
Successes(results) == {k \in 1..Len(results) : results[k].success}

\* C30: the batch command processes every operation of the file exactly once,
\* in file order, and a failing operation never prevents the following ones:
\* the results list holds one entry per operation processed, the entry at
\* position k for the k-th operation with index k - 1; successCount +
\* failCount is the number of operations processed; and when the command ends
\* with its summary, every operation of the file has its entry.
C30_BatchProcessesEveryOperation ==
  (cliPc # "idle" /\ cliCall.operation = "batch") =>
    LET b == cliCall IN
      /\ Len(b.results) = b.index /\ b.index <= Len(b.config)
      /\ \A k \in 1..Len(b.results) :
           b.results[k].operation = b.config[k] /\ b.results[k].index = k - 1
      /\ b.successCount = Cardinality(Successes(b.results))
      /\ b.successCount + b.failCount = Len(b.results)
      /\ (cliPc = "done" /\ cliOut = "summary") => Len(b.results) = Len(b.config)

\* the first operation failed and the second was carried out
C30_Witness ==
  /\ cliPc = "done" /\ cliOut = "summary" /\ cliCall.operation = "batch"
  /\ Len(cliCall.config) = 2 /\ Len(cliCall.results) = 2
  /\ ~cliCall.results[1].success /\ cliCall.results[2].success
  /\ cliCall.config[1].type = "set" /\ cliCall.config[1].mac # Null
  /\ cliCall.successCount = 1 /\ cliCall.failCount = 1

\* every operation of the file succeeded, each logged as a batch operation
C30_AllSucceed ==
  /\ cliPc = "done" /\ cliOut = "summary" /\ cliCall.operation = "batch"
  /\ cliCall.successCount = 2 /\ cliCall.failCount = 0
  /\ Len(history) >= 2 /\ history[1].operation = "batch-reset"

\* ------------------------------------------------------------ two spoofy processes side by side

Wlan0 == <<"w","l","a","n","0">>

\* A spoofy process in setMACAddress, past the privilege check, about to
\* change the address of its own device. read: what getHistory gave it.
Proc(device, oldMac, new) ==
  [pc |-> "start", device |-> device, oldMac |-> oldMac, mac |-> new,
   adapter |-> oldMac, read |-> <<>>, saved |-> FALSE]

ProcIds == {1, 2}

ConcurrentFrame ==
  UNCHANGED <<macVars, codecVars, cliVars, argv, added,
              duidCurrent, duidOriginal, duidPc, duidCall, duidWrites, duidOut, calls, firstBefore>>

\* await spoof.setInterfaceMAC(device, mac, port, nmOptions): it returns with
\* the device at the new address, or throws and the command ends.
ProcSetInterfaceMAC(p) ==
  /\ procs[p].pc = "start"
  /\ \E returns \in BOOLEAN :
       procs' = [procs EXCEPT ![p].pc = IF returns THEN "changed" ELSE "failed",
                              ![p].adapter = IF returns THEN procs[p].mac ELSE @]
  /\ UNCHANGED history
  /\ ConcurrentFrame

\* addHistoryEntry, first half: "const history = getHistory()" reads the file.
ProcGetHistory(p) ==
  /\ procs[p].pc = "changed"
  /\ procs' = [procs EXCEPT ![p].pc = "read", ![p].read = history]
  /\ UNCHANGED history
  /\ ConcurrentFrame

\* addHistoryEntry, second half: unshift on what was read, splice, and
\* saveHistory, which writes the whole file (or fails silently).
ProcSaveHistory(p) ==
  /\ procs[p].pc = "read"
  /\ \E saved \in BOOLEAN :
       /\ history' = (IF saved
                      THEN addHistoryEntry(procs[p].read, procs[p].device, procs[p].oldMac,
                                           procs[p].mac, "set", TRUE)
                      ELSE history)
       /\ procs' = [procs EXCEPT ![p].pc = "done", ![p].saved = saved]
  /\ ConcurrentFrame

ConcurrentInit ==
  /\ platform \in Platforms
  /\ ifaceMac = HwMac /\ ifaceUp = TRUE
  /\ MacIdle /\ CodecIdle /\ CliIdle /\ added = 0
  /\ duidCurrent = Null /\ duidOriginal = Null /\ duidPc = "idle"
  /\ duidCall = <<>> /\ duidWrites = 0 /\ duidOut = "" /\ calls = 0 /\ firstBefore = Null
  /\ history \in {<<>>, addHistoryEntry(<<>>, Eth0, HwMac, SpoofedMac, "set", TRUE)}
  /\ procs = <<Proc(Eth0, HwMac, Mac_colon), Proc(Wlan0, SpoofedMac, NthAddress(1))>>

ConcurrentNext ==
  \E p \in ProcIds : ProcSetInterfaceMAC(p) \/ ProcGetHistory(p) \/ ProcSaveHistory(p)

ConcurrentSpec == ConcurrentInit /\ [][ConcurrentNext]_vars


\* ------------------------------------------------------------ properties of processes side by side

\* Process p changed its device and its write of the history file succeeded.
Logged(p) == procs[p].pc = "done" /\ procs[p].saved

\* The history holds the entry of process p.
EntryPresent(p) ==
  \E k \in 1..Len(history) :
    history[k].device = procs[p].device /\ history[k].newMac = procs[p].mac

\* C25: two spoofy processes that change different devices are independent:
\* for every interleaving, the history entry of each successful change is
\* present afterwards, none lost or overwritten by the other process.
C25_NoHistoryEntryLost ==
  (procs # <<>> /\ \A p \in ProcIds : procs[p].pc \in {"done", "failed"}) =>
    \A p \in ProcIds : Logged(p) => EntryPresent(p)

\* What does hold: the devices do not share state (each ends at the address
\* its own process set, or keeps its own), and the process that writes the
\* file last has its entry first.
DevicesAreIndependent ==
  procs # <<>> =>
    \A p \in ProcIds :
      procs[p].adapter = (IF procs[p].pc \in {"start", "failed"} THEN procs[p].oldMac ELSE procs[p].mac)

LastWriterIsFirst ==
  [][\A p \in ProcIds :
       (procs[p].pc = "read" /\ Logged(p)') =>
          history'[1].device = procs[p].device /\ history'[1].newMac = procs[p].mac]_vars

====
